---- MODULE Spec2Model ----
(***************************************************************************)
(* Connect-4 (GalVitrak/Connect-4): the board, the last-move win detector, *)
(* the three computer opponents and the four game-session loops.           *)
(*                                                                         *)
(* The board is the program's global Cell board[ROWS][COLS]; row 0 is the  *)
(* top row and row ROWS-1 the bottom row.  Every C function that touches   *)
(* the board is an operator that takes the memory (board plus the log of   *)
(* the writes made so far) and returns the memory it leaves behind         *)
(* together with its return value, so that a simulation that fails to      *)
(* restore the board is visible to its caller.                             *)
(***************************************************************************)
EXTENDS Integers, Sequences, FiniteSets, TLC

----------------------------------------------------------------------------
(* board.h / board.c *)

ROWS == 6
COLS == 7
WIN_COUNT == 4
BOARD_FULL == 42

cell_empty == 0
cell_player1 == 1
cell_player2 == 2

INT_MIN == -2147483647 - 1
INT_MAX == 2147483647

Cell == {cell_empty, cell_player1, cell_player2}
RowIdx == 0 .. (ROWS - 1)
ColIdx == 0 .. (COLS - 1)

\* board_init: every cell Empty.
board_init == [r \in RowIdx |-> [c \in ColIdx |-> cell_empty]]

\* GameMove { row, column }
GameMove(r, c) == [row |-> r, column |-> c]

\* The memory a function works on: the board and the log of the writes
\* board[row][col] = val made on it, oldest first.
Mem(b) == [b |-> b, log |-> << >>]

\* One assignment board[r][c] = v.  A write outside the array is undefined
\* behaviour in C; it is logged and leaves the array as it is, and the
\* properties below state that no such write is ever logged.
StoreCell(m, r, c, v) ==
    [b |-> IF r \in RowIdx /\ c \in ColIdx THEN [m.b EXCEPT ![r][c] = v] ELSE m.b,
     log |-> Append(m.log, [row |-> r, col |-> c, val |-> v])]

----------------------------------------------------------------------------
(* game.c: win detection from the last move *)

\* One while loop of check_vertical / check_horizontal / check_diagonal / count_threats:
\* starting next to (r, c), count the cells equal to player in direction
\* (dr, dc).  The loop guard tests only the coordinate that moves, as the
\* code does (temp_row + 1 < ROWS, temp_row - 1 >= 0, temp_col + 1 < COLS,
\* temp_col - 1 >= 0), before it reads the cell.
RECURSIVE CountDir(_, _, _, _, _, _)
CountDir(b, r, c, dr, dc, player) ==
    IF /\ (dr = 1 => r + 1 < ROWS)
       /\ (dr = -1 => r - 1 >= 0)
       /\ (dc = 1 => c + 1 < COLS)
       /\ (dc = -1 => c - 1 >= 0)
       /\ b[r + dr][c + dc] = player
    THEN 1 + CountDir(b, r + dr, c + dc, dr, dc, player)
    ELSE 0

\* check_vertical satisfied with one cell less than WIN_COUNT.
check_vertical_three(b, last_move, player) ==
    LET count == 1 + CountDir(b, last_move.row, last_move.column, 1, 0, player)
                   + CountDir(b, last_move.row, last_move.column, -1, 0, player)
    IN  IF count >= WIN_COUNT - 1 THEN 1 ELSE 0

check_vertical(b, last_move, player) ==
    LET count == 1 + CountDir(b, last_move.row, last_move.column, 1, 0, player)
                   + CountDir(b, last_move.row, last_move.column, -1, 0, player)
    IN  IF count >= WIN_COUNT THEN 1 ELSE 0

\* The loop of the earlier check_* functions, which stops counting at
\* WIN_COUNT and starts from count.
RECURSIVE CountDirCapped(_, _, _, _, _, _, _)
CountDirCapped(b, r, c, dr, dc, player, count) ==
    IF /\ (dr = 1 => r + 1 < ROWS)
       /\ (dr = -1 => r - 1 >= 0)
       /\ (dc = 1 => c + 1 < COLS)
       /\ (dc = -1 => c - 1 >= 0)
       /\ b[r + dr][c + dc] = player
       /\ count < WIN_COUNT
    THEN CountDirCapped(b, r + dr, c + dc, dr, dc, player, count + 1)
    ELSE count

\* The earlier check_horizontal: each direction is counted on its own,
\* starting again from 1.
check_horizontal_reset(b, last_move, player) ==
    IF CountDirCapped(b, last_move.row, last_move.column, 0, 1, player, 1) = WIN_COUNT
    THEN 1
    ELSE IF CountDirCapped(b, last_move.row, last_move.column, 0, -1, player, 1) = WIN_COUNT
         THEN 1 ELSE 0

check_horizontal(b, last_move, player) ==
    LET count == 1 + CountDir(b, last_move.row, last_move.column, 0, 1, player)
                   + CountDir(b, last_move.row, last_move.column, 0, -1, player)
    IN  IF count >= WIN_COUNT THEN 1 ELSE 0

\* The earlier check_diagonal: each of the four directions is counted on
\* its own, starting again from 1.
check_diagonal_reset(b, last_move, player) ==
    IF CountDirCapped(b, last_move.row, last_move.column, 1, 1, player, 1) = WIN_COUNT
    THEN 1
    ELSE IF CountDirCapped(b, last_move.row, last_move.column, -1, -1, player, 1) = WIN_COUNT
    THEN 1
    ELSE IF CountDirCapped(b, last_move.row, last_move.column, 1, -1, player, 1) = WIN_COUNT
    THEN 1
    ELSE IF CountDirCapped(b, last_move.row, last_move.column, -1, 1, player, 1) = WIN_COUNT
    THEN 1 ELSE 0

check_diagonal(b, last_move, player) ==
    LET pos == 1 + CountDir(b, last_move.row, last_move.column, -1, 1, player)
                 + CountDir(b, last_move.row, last_move.column, 1, -1, player)
        neg == 1 + CountDir(b, last_move.row, last_move.column, -1, -1, player)
                 + CountDir(b, last_move.row, last_move.column, 1, 1, player)
    IN  IF pos >= WIN_COUNT THEN 1
        ELSE IF neg >= WIN_COUNT THEN 1 ELSE 0

\* The reads of the while loops of check_vertical / check_horizontal /
\* check_diagonal when they test the row only: "temp_col + 1 < COLS" and
\* "temp_col - 1 >= 0" are left out.
RECURSIVE ReadsDir_RowTestOnly(_, _, _, _, _, _)
ReadsDir_RowTestOnly(b, r, c, dr, dc, player) ==
    IF /\ (dr = 1 => r + 1 < ROWS)
       /\ (dr = -1 => r - 1 >= 0)
    THEN {<<r + dr, c + dc>>}
         \cup (IF /\ r + dr \in 0 .. (ROWS - 1)
                  /\ c + dc \in 0 .. (COLS - 1)
                  /\ b[r + dr][c + dc] = player
               THEN ReadsDir_RowTestOnly(b, r + dr, c + dc, dr, dc, player)
               ELSE {})
    ELSE {}

\* The cells one such while loop reads: the loop guard tests the coordinate
\* that moves and then reads board[r + dr][c + dc]; the loop goes on from
\* that cell when it holds player.  What a read outside the array would
\* yield is not defined; the set ends with that cell.
RECURSIVE ReadsDir(_, _, _, _, _, _)
ReadsDir(b, r, c, dr, dc, player) ==
    IF /\ (dr = 1 => r + 1 < ROWS)
       /\ (dr = -1 => r - 1 >= 0)
       /\ (dc = 1 => c + 1 < COLS)
       /\ (dc = -1 => c - 1 >= 0)
    THEN {<<r + dr, c + dc>>}
         \cup (IF /\ r + dr \in 0 .. (ROWS - 1)
                  /\ c + dc \in 0 .. (COLS - 1)
                  /\ b[r + dr][c + dc] = player
               THEN ReadsDir(b, r + dr, c + dc, dr, dc, player)
               ELSE {})
    ELSE {}

\* The cells of board that check_vertical, check_horizontal and
\* check_diagonal read.  check_diagonal returns after the first diagonal
\* when that one holds WIN_COUNT.
ReadsVertical(b, last_move, player) ==
    ReadsDir(b, last_move.row, last_move.column, 1, 0, player)
        \cup ReadsDir(b, last_move.row, last_move.column, -1, 0, player)

ReadsHorizontal(b, last_move, player) ==
    ReadsDir(b, last_move.row, last_move.column, 0, 1, player)
        \cup ReadsDir(b, last_move.row, last_move.column, 0, -1, player)

ReadsDiagonal(b, last_move, player) ==
    LET posReads == ReadsDir(b, last_move.row, last_move.column, -1, 1, player)
                        \cup ReadsDir(b, last_move.row, last_move.column, 1, -1, player)
        negReads == ReadsDir(b, last_move.row, last_move.column, -1, -1, player)
                        \cup ReadsDir(b, last_move.row, last_move.column, 1, 1, player)
        pos == 1 + CountDir(b, last_move.row, last_move.column, -1, 1, player)
                 + CountDir(b, last_move.row, last_move.column, 1, -1, player)
    IN  IF pos >= WIN_COUNT THEN posReads ELSE posReads \cup negReads

\* check_winner without its call of check_horizontal.
check_winner_NoHorizontal(b, last_move, player) ==
    IF check_vertical(b, last_move, player) # 0 THEN 1
    ELSE IF check_diagonal(b, last_move, player) # 0 THEN 1
    ELSE 0

\* check_winner without its call of check_diagonal.
check_winner_NoDiagonal(b, last_move, player) ==
    IF check_vertical(b, last_move, player) # 0 THEN 1
    ELSE IF check_horizontal(b, last_move, player) # 0 THEN 1
    ELSE 0

check_winner(b, last_move, player) ==
    IF check_vertical(b, last_move, player) # 0 THEN 1
    ELSE IF check_horizontal(b, last_move, player) # 0 THEN 1
    ELSE IF check_diagonal(b, last_move, player) # 0 THEN 1
    ELSE 0

----------------------------------------------------------------------------
(* ai.c: helpers *)

\* The scan "for (row = ROWS-1; row >= 0; row--) if (board[row][col] == cell_empty)"
\* used by every move generator: the first empty row from the bottom, -1
\* when the loop ends without finding one.
RECURSIVE ScanUp(_, _, _)
ScanUp(b, col, row) ==
    IF row < 0 THEN -1
    ELSE IF b[row][col] = cell_empty THEN row
    ELSE ScanUp(b, col, row - 1)

\* The scan run from the top row downwards: the first empty row from the top.
LowestEmpty_FromTop(b, col) ==
    IF \A row \in RowIdx : b[row][col] # cell_empty THEN -1
    ELSE CHOOSE row \in RowIdx :
             b[row][col] = cell_empty /\ \A above \in 0 .. (row - 1) : b[above][col] # cell_empty

LowestEmpty(b, col) == ScanUp(b, col, ROWS - 1)

\* find_winning_move returning the winning move with the trial piece still
\* on the board.
RECURSIVE FindWinFrom_NoUndo(_, _, _)
FindWinFrom_NoUndo(m, col, player) ==
    IF col >= COLS THEN [m |-> m, ret |-> GameMove(-1, -1)]
    ELSE LET row == LowestEmpty(m.b, col)
         IN  IF row = -1 THEN FindWinFrom_NoUndo(m, col + 1, player)
             ELSE LET m1 == StoreCell(m, row, col, player)
                      won == check_winner(m1.b, GameMove(row, col), player) = 1
                  IN  IF won THEN [m |-> m1, ret |-> GameMove(row, col)]
                      ELSE FindWinFrom_NoUndo(StoreCell(m1, row, col, cell_empty),
                                              col + 1, player)

\* find_winning_move(player): for each column in ascending order, put the
\* player's piece on the lowest empty cell, ask check_winner, take it off.
RECURSIVE FindWinFrom(_, _, _)
FindWinFrom(m, col, player) ==
    IF col >= COLS THEN [m |-> m, ret |-> GameMove(-1, -1)]
    ELSE LET row == LowestEmpty(m.b, col)
         IN  IF row = -1 THEN FindWinFrom(m, col + 1, player)
             ELSE LET m1 == StoreCell(m, row, col, player)
                      won == check_winner(m1.b, GameMove(row, col), player) = 1
                      m2 == StoreCell(m1, row, col, cell_empty)
                  IN  IF won THEN [m |-> m2, ret |-> GameMove(row, col)]
                      ELSE FindWinFrom(m2, col + 1, player)

\* find_winning_move with its column loop starting at column 1.
find_winning_move_FromColumnOne(m, player) == FindWinFrom(m, 1, player)

find_winning_move(m, player) == FindWinFrom(m, 0, player)

\* count_threats(row, col, player): put the piece, count the horizontal and
\* the vertical run through it, take the piece off.
count_threats(m, row, col, player) ==
    LET m1 == StoreCell(m, row, col, player)
        h  == 1 + CountDir(m1.b, row, col, 0, 1, player)
                + CountDir(m1.b, row, col, 0, -1, player)
        v  == 1 + CountDir(m1.b, row, col, 1, 0, player)
                + CountDir(m1.b, row, col, -1, 0, player)
        threats == (IF h >= 2 THEN h ELSE 0) + (IF v >= 2 THEN v ELSE 0)
    IN  [m |-> StoreCell(m1, row, col, cell_empty), ret |-> threats]

\* The positional bonus of find_best_strategic_move.
CenterBonus(col) ==
    IF col = 3 THEN 3
    ELSE IF col = 2 \/ col = 4 THEN 2
    ELSE IF col = 1 \/ col = 5 THEN 1
    ELSE 0

\* find_best_strategic_move(player): the loop over the columns, carrying
\* best_score and best_move; a column replaces the best only when its score
\* is strictly greater.
RECURSIVE StrategicFrom(_, _, _, _, _)
StrategicFrom(m, col, player, best_score, best_move) ==
    IF col >= COLS THEN [m |-> m, ret |-> best_move]
    ELSE LET row == LowestEmpty(m.b, col)
         IN  IF row = -1 THEN StrategicFrom(m, col + 1, player, best_score, best_move)
             ELSE LET t == count_threats(m, row, col, player)
                      score == t.ret + CenterBonus(col)
                  IN  IF score > best_score
                      THEN StrategicFrom(t.m, col + 1, player, score, GameMove(row, col))
                      ELSE StrategicFrom(t.m, col + 1, player, best_score, best_move)

find_best_strategic_move(m, player) ==
    StrategicFrom(m, 0, player, -1, GameMove(-1, -1))

\* The shuffle of ai_medium_move: for i = 0..6 swap center_preference[i]
\* with center_preference[j], j = rand() % 7.  js[i + 1] is the i-th draw.
center_preference == <<3, 2, 4, 1, 5, 0, 6>>

RECURSIVE ShuffleFrom(_, _, _)
ShuffleFrom(pref, js, i) ==
    IF i >= 7 THEN pref
    ELSE LET j == js[i + 1]
         IN  ShuffleFrom([pref EXCEPT ![i + 1] = pref[j + 1], ![j + 1] = pref[i + 1]],
                         js, i + 1)

Shuffle(js) == ShuffleFrom(center_preference, js, 0)

\* "Find first valid column from shuffled list": the first column of pref,
\* from position i, that has an empty cell; -1 when there is none.
RECURSIVE FirstValid(_, _, _)
FirstValid(b, pref, i) ==
    IF i >= 7 THEN GameMove(-1, -1)
    ELSE LET row == LowestEmpty(b, pref[i + 1])
         IN  IF row # -1 THEN GameMove(row, pref[i + 1])
             ELSE FirstValid(b, pref, i + 1)

\* ai_medium_move without its first priority: it blocks, or moves
\* strategically or at random, and never looks for its own win.
ai_medium_move_NoWin(m, r100, js) ==
    LET k == find_winning_move(m, cell_player1)
    IN  IF k.ret.row # -1 THEN [m |-> k.m, ret |-> k.ret, easy |-> FALSE]
        ELSE LET s == find_best_strategic_move(k.m, cell_player2)
             IN  IF s.ret.row # -1 /\ r100 < 70
                 THEN [m |-> s.m, ret |-> s.ret, easy |-> FALSE]
                 ELSE LET f == FirstValid(s.m.b, Shuffle(js), 0)
                      IN  [m |-> s.m, ret |-> f, easy |-> f.row = -1]

\* ai_medium_move without its second priority: it never blocks.
ai_medium_move_NoBlock(m, r100, js) ==
    LET w == find_winning_move(m, cell_player2)
    IN  IF w.ret.row # -1 THEN [m |-> w.m, ret |-> w.ret, easy |-> FALSE]
        ELSE LET s == find_best_strategic_move(w.m, cell_player2)
             IN  IF s.ret.row # -1 /\ r100 < 70
                 THEN [m |-> s.m, ret |-> s.ret, easy |-> FALSE]
                 ELSE LET f == FirstValid(s.m.b, Shuffle(js), 0)
                      IN  [m |-> s.m, ret |-> f, easy |-> f.row = -1]

\* ai_medium_move.  r100 is rand() % 100 of the strategic tier and js the
\* seven draws of the shuffle (read only when their tier is reached).
\* easy = TRUE says that the function ended in its fallback, the call of
\* ai_easy_move.
ai_medium_move(m, r100, js) ==
    LET w == find_winning_move(m, cell_player2)
    IN  IF w.ret.row # -1 THEN [m |-> w.m, ret |-> w.ret, easy |-> FALSE]
        ELSE LET k == find_winning_move(w.m, cell_player1)
             IN  IF k.ret.row # -1 THEN [m |-> k.m, ret |-> k.ret, easy |-> FALSE]
                 ELSE LET s == find_best_strategic_move(k.m, cell_player2)
                      IN  IF s.ret.row # -1 /\ r100 < 70
                          THEN [m |-> s.m, ret |-> s.ret, easy |-> FALSE]
                          ELSE LET f == FirstValid(s.m.b, Shuffle(js), 0)
                               IN  IF f.row # -1
                                   THEN [m |-> s.m, ret |-> f, easy |-> FALSE]
                                   ELSE [m |-> s.m, ret |-> f, easy |-> TRUE]

----------------------------------------------------------------------------
(* The bounds of the model *)

\* A complete game of 42 plies that ends in a draw, first column first; the
\* odd plies are Player1's and the even plies Player2's.  It is a game the
\* program plays in each of its four modes: every Player2 ply is the move
\* ai_hard_move returns on the board before it (and so a move ai_medium_move
\* and ai_easy_move can return there), and no ply completes a 4-in-a-row.
Line ==
    <<5, 3, 6, 2, 1, 3, 1, 2, 2, 1, 4, 2, 0, 4, 5, 4, 2, 4, 4, 0, 2,
      4, 1, 0, 0, 5, 5, 1, 3, 3, 3, 5, 3, 0, 0, 1, 6, 6, 6, 5, 6, 6>>

\* The number of plies of a session whose inputs are left free; the plies
\* before them follow Line.
FreePlies == 10
OpeningLen == BOARD_FULL - FreePlies

\* How many times in a row input_player_move / ai_easy_move are followed
\* into their recursive retry.
MaxRetries == 2

\* The board after the first n plies of Line.
LineBoard[n \in 0 .. BOARD_FULL] ==
    IF n = 0 THEN board_init
    ELSE LET b == LineBoard[n - 1]
             col == Line[n]
         IN  [b EXCEPT ![LowestEmpty(b, col)][col] =
                 IF n % 2 = 1 THEN cell_player1 ELSE cell_player2]

PieceCount(b) == Cardinality({rc \in RowIdx \X ColIdx : b[rc[1]][rc[2]] # cell_empty})

\* The search of ai_hard_move visits up to 7^5 positions on an open board.
\* On the boards of the opening line on which Player2 is to move, its
\* result is the next column of Line (BookAgrees below).
InBook(b) ==
    LET n == PieceCount(b)
    IN  n < OpeningLen /\ n % 2 = 1 /\ b = LineBoard[n]

BookColumn(b) == Line[PieceCount(b) + 1]

----------------------------------------------------------------------------
(* ai.c: the Hard AI *)

\* The 4-cell windows of evaluate_position in the order of its four loop
\* nests: the first cell and the direction of each.
Windows ==
    [k \in 1 .. 24 |-> [r |-> (k - 1) \div 4, c |-> (k - 1) % 4, dr |-> 0, dc |-> 1]]
    \o [k \in 1 .. 21 |-> [r |-> (k - 1) % 3, c |-> (k - 1) \div 3, dr |-> 1, dc |-> 0]]
    \o [k \in 1 .. 12 |-> [r |-> (k - 1) \div 4, c |-> (k - 1) % 4, dr |-> 1, dc |-> 1]]
    \o [k \in 1 .. 12 |-> [r |-> 3 + ((k - 1) \div 4), c |-> (k - 1) % 4, dr |-> -1, dc |-> 1]]

\* The number of cells of window w equal to v.
WindowCount(b, w, v) ==
    (IF b[w.r][w.c] = v THEN 1 ELSE 0)
    + (IF b[w.r + w.dr][w.c + w.dc] = v THEN 1 ELSE 0)
    + (IF b[w.r + 2 * w.dr][w.c + 2 * w.dc] = v THEN 1 ELSE 0)
    + (IF b[w.r + 3 * w.dr][w.c + 3 * w.dc] = v THEN 1 ELSE 0)

\* The window score without the tests of empty_count: three or two pieces of
\* a player count whatever the rest of the window holds.
WindowScore_AnyRest(b, w, player, opponent) ==
    LET player_count == WindowCount(b, w, player)
        opponent_count == WindowCount(b, w, opponent)
    IN  (IF player_count = 4 THEN 100
         ELSE IF player_count = 3 THEN 5
         ELSE IF player_count = 2 THEN 2
         ELSE 0)
        + (IF opponent_count = 4 THEN -100
           ELSE IF opponent_count = 3 THEN -4
           ELSE 0)

\* "Score this window".
WindowScore(b, w, player, opponent) ==
    LET player_count == WindowCount(b, w, player)
        opponent_count == WindowCount(b, w, opponent)
        empty_count == 4 - player_count - opponent_count
    IN  (IF player_count = 4 THEN 100
         ELSE IF player_count = 3 /\ empty_count = 1 THEN 5
         ELSE IF player_count = 2 /\ empty_count = 2 THEN 2
         ELSE 0)
        + (IF opponent_count = 4 THEN -100
           ELSE IF opponent_count = 3 /\ empty_count = 1 THEN -4
           ELSE 0)

\* "score += ..." over the windows lo .. hi, one half of them after the
\* other.
RECURSIVE SumWindows(_, _, _, _, _)
SumWindows(b, lo, hi, player, opponent) ==
    IF lo > hi THEN 0
    ELSE IF lo = hi THEN WindowScore(b, Windows[lo], player, opponent)
    ELSE SumWindows(b, lo, (lo + hi) \div 2, player, opponent)
         + SumWindows(b, ((lo + hi) \div 2) + 1, hi, player, opponent)

RECURSIVE CenterCount(_, _, _)
CenterCount(b, r, player) ==
    IF r >= ROWS THEN 0
    ELSE (IF b[r][3] = player THEN 3 ELSE 0) + CenterCount(b, r + 1, player)

Opponent(player) == IF player = cell_player1 THEN cell_player2 ELSE cell_player1

evaluate_position(b, player) ==
    SumWindows(b, 1, Len(Windows), player, Opponent(player)) + CenterCount(b, 0, player)

\* is_game_over without its scan for a winner: only the top row is tested.
is_game_over_TopRowOnly(b) ==
    IF \E c \in ColIdx : b[0][c] = cell_empty THEN 0 ELSE 1

\* is_game_over: some occupied cell is part of a win, or the top row is full.
is_game_over(b) ==
    IF \E r \in RowIdx, c \in ColIdx :
           b[r][c] # cell_empty /\ check_winner(b, GameMove(r, c), b[r][c]) # 0
    THEN 1
    ELSE IF \E c \in ColIdx : b[0][c] = cell_empty THEN 0 ELSE 1

\* get_valid_moves: the columns whose top cell is empty, ascending.
RECURSIVE ValidFrom(_, _)
ValidFrom(b, c) ==
    IF c >= COLS THEN << >>
    ELSE IF b[0][c] = cell_empty THEN <<c>> \o ValidFrom(b, c + 1)
    ELSE ValidFrom(b, c + 1)

get_valid_moves(b) == ValidFrom(b, 0)

\* make_move writing the first empty row from the top.
make_move_top(m, col, player) ==
    LET r == LowestEmpty_FromTop(m.b, col)
    IN  IF r # -1 THEN [m |-> StoreCell(m, r, col, player), ret |-> r]
        ELSE [m |-> m, ret |-> -1]

\* make_move writing the cell above the lowest empty one when there is one.
make_move_AboveLowest(m, col, player) ==
    LET r == LowestEmpty(m.b, col)
    IN  IF r > 0 THEN [m |-> StoreCell(m, r - 1, col, player), ret |-> r - 1]
        ELSE IF r = 0 THEN [m |-> StoreCell(m, r, col, player), ret |-> r]
        ELSE [m |-> m, ret |-> -1]

\* make_move(col, player): the row written, -1 (and no write) on a full column.
make_move(m, col, player) ==
    LET r == LowestEmpty(m.b, col)
    IN  IF r # -1 THEN [m |-> StoreCell(m, r, col, player), ret |-> r]
        ELSE [m |-> m, ret |-> -1]

\* undo_move(row, col)
undo_move(m, row, col) == StoreCell(m, row, col, cell_empty)

\* minimax(depth, alpha, beta, maximizing, player).  MaxLoop and MinLoop are
\* the two for loops over valid_cols, from index i, carrying alpha / beta and
\* max_eval / min_eval; they end at the end of the list or at the break.
RECURSIVE minimax(_, _, _, _, _, _)
RECURSIVE MaxLoop(_, _, _, _, _, _, _, _)
RECURSIVE MinLoop(_, _, _, _, _, _, _, _)

\* The maximizing loop with the break in front of the update of max_eval.
RECURSIVE MaxLoop_BreakFirst(_, _, _, _, _, _, _, _)
MaxLoop_BreakFirst(m, valid_cols, i, depth, alpha, beta, max_eval, player) ==
    IF i > Len(valid_cols) THEN [m |-> m, ret |-> max_eval]
    ELSE LET col == valid_cols[i]
             mv == make_move(m, col, player)
             ev == minimax(mv.m, depth - 1, alpha, beta, 0, player)
             m2 == undo_move(ev.m, mv.ret, col)
             max2 == IF ev.ret > max_eval THEN ev.ret ELSE max_eval
             alpha2 == IF alpha > ev.ret THEN alpha ELSE ev.ret
         IN  IF beta <= alpha2 THEN [m |-> m2, ret |-> max_eval]
             ELSE MaxLoop_BreakFirst(m2, valid_cols, i + 1, depth, alpha2, beta, max2, player)

MaxLoop(m, valid_cols, i, depth, alpha, beta, max_eval, player) ==
    IF i > Len(valid_cols) THEN [m |-> m, ret |-> max_eval]
    ELSE LET col == valid_cols[i]
             mv == make_move(m, col, player)
             ev == minimax(mv.m, depth - 1, alpha, beta, 0, player)
             m2 == undo_move(ev.m, mv.ret, col)
             max2 == IF ev.ret > max_eval THEN ev.ret ELSE max_eval
             alpha2 == IF alpha > ev.ret THEN alpha ELSE ev.ret
         IN  IF beta <= alpha2 THEN [m |-> m2, ret |-> max2]
             ELSE MaxLoop(m2, valid_cols, i + 1, depth, alpha2, beta, max2, player)

\* The minimizing loop leaving at a cutoff with min_eval as it was before
\* the last child.
MinLoop_BreakFirst(m, valid_cols, i, depth, alpha, beta, min_eval, player) ==
    IF i > Len(valid_cols) THEN [m |-> m, ret |-> min_eval]
    ELSE LET col == valid_cols[i]
             mv == make_move(m, col, Opponent(player))
             ev == minimax(mv.m, depth - 1, alpha, beta, 1, player)
             m2 == undo_move(ev.m, mv.ret, col)
             min2 == IF ev.ret < min_eval THEN ev.ret ELSE min_eval
             beta2 == IF beta < ev.ret THEN beta ELSE ev.ret
         IN  IF beta2 <= alpha THEN [m |-> m2, ret |-> min_eval]
             ELSE MinLoop(m2, valid_cols, i + 1, depth, alpha, beta2, min2, player)

MinLoop(m, valid_cols, i, depth, alpha, beta, min_eval, player) ==
    IF i > Len(valid_cols) THEN [m |-> m, ret |-> min_eval]
    ELSE LET col == valid_cols[i]
             mv == make_move(m, col, Opponent(player))
             ev == minimax(mv.m, depth - 1, alpha, beta, 1, player)
             m2 == undo_move(ev.m, mv.ret, col)
             min2 == IF ev.ret < min_eval THEN ev.ret ELSE min_eval
             beta2 == IF beta < ev.ret THEN beta ELSE ev.ret
         IN  IF beta2 <= alpha THEN [m |-> m2, ret |-> min2]
             ELSE MinLoop(m2, valid_cols, i + 1, depth, alpha, beta2, min2, player)

\* minimax that tests only the depth before it expands a position.
minimax_DepthOnly(m, depth, alpha, beta, maximizing, player) ==
    IF depth = 0
    THEN [m |-> m, ret |-> evaluate_position(m.b, player)]
    ELSE LET valid_cols == get_valid_moves(m.b)
         IN  IF Len(valid_cols) = 0 THEN [m |-> m, ret |-> 0]
             ELSE IF maximizing # 0
                  THEN MaxLoop(m, valid_cols, 1, depth, alpha, beta, INT_MIN, player)
                  ELSE MinLoop(m, valid_cols, 1, depth, alpha, beta, INT_MAX, player)

minimax(m, depth, alpha, beta, maximizing, player) ==
    IF depth = 0 \/ is_game_over(m.b) # 0
    THEN [m |-> m, ret |-> evaluate_position(m.b, player)]
    ELSE LET valid_cols == get_valid_moves(m.b)
         IN  IF Len(valid_cols) = 0 THEN [m |-> m, ret |-> 0]
             ELSE IF maximizing # 0
                  THEN MaxLoop(m, valid_cols, 1, depth, alpha, beta, INT_MIN, player)
                  ELSE MinLoop(m, valid_cols, 1, depth, alpha, beta, INT_MAX, player)

SEARCH_DEPTH == 5

\* HardLoop with "score >= best_score": among columns of equal score the
\* last one scanned is kept.
RECURSIVE HardLoop_LastTie(_, _, _, _, _)
HardLoop_LastTie(m, valid_cols, i, best_score, best_col) ==
    IF i > Len(valid_cols) THEN [m |-> m, ret |-> best_col]
    ELSE LET col == valid_cols[i]
             mv == make_move(m, col, cell_player2)
             sc == minimax(mv.m, SEARCH_DEPTH - 1, INT_MIN, INT_MAX, 0, cell_player2)
             m2 == undo_move(sc.m, mv.ret, col)
         IN  IF sc.ret >= best_score
             THEN HardLoop_LastTie(m2, valid_cols, i + 1, sc.ret, col)
             ELSE HardLoop_LastTie(m2, valid_cols, i + 1, best_score, best_col)

\* HardLoop calling minimax with SEARCH_DEPTH instead of SEARCH_DEPTH - 1.
RECURSIVE HardLoop_FullDepth(_, _, _, _, _)
HardLoop_FullDepth(m, valid_cols, i, best_score, best_col) ==
    IF i > Len(valid_cols) THEN [m |-> m, ret |-> best_col]
    ELSE LET col == valid_cols[i]
             mv == make_move(m, col, cell_player2)
             sc == minimax(mv.m, SEARCH_DEPTH, INT_MIN, INT_MAX, 0, cell_player2)
             m2 == undo_move(sc.m, mv.ret, col)
         IN  IF sc.ret > best_score
             THEN HardLoop_FullDepth(m2, valid_cols, i + 1, sc.ret, col)
             ELSE HardLoop_FullDepth(m2, valid_cols, i + 1, best_score, best_col)

\* The search loop of ai_hard_move, from index i of valid_cols, carrying
\* best_score and best_col.
RECURSIVE HardLoop(_, _, _, _, _)
HardLoop(m, valid_cols, i, best_score, best_col) ==
    IF i > Len(valid_cols) THEN [m |-> m, ret |-> best_col]
    ELSE LET col == valid_cols[i]
             mv == make_move(m, col, cell_player2)
             sc == minimax(mv.m, SEARCH_DEPTH - 1, INT_MIN, INT_MAX, 0, cell_player2)
             m2 == undo_move(sc.m, mv.ret, col)
         IN  IF sc.ret > best_score
             THEN HardLoop(m2, valid_cols, i + 1, sc.ret, col)
             ELSE HardLoop(m2, valid_cols, i + 1, best_score, best_col)

\* The search with best_score starting from 0.
HardSearch_FromZero(m) ==
    IF InBook(m.b) THEN [m |-> m, ret |-> BookColumn(m.b)]
    ELSE HardLoop(m, get_valid_moves(m.b), 1, 0, 3)

\* "Priority 3" of ai_hard_move: the column the search settles on.  On the
\* boards of the opening line the column is read from the line itself (see
\* InBook below); everywhere else it is computed.
HardSearch(m) ==
    IF InBook(m.b) THEN [m |-> m, ret |-> BookColumn(m.b)]
    ELSE HardLoop(m, get_valid_moves(m.b), 1, INT_MIN, 3)

\* ai_hard_move with its first two priorities in the other order: it
\* blocks before it looks for its own win.
ai_hard_move_BlockFirst(m) ==
    LET k == find_winning_move(m, cell_player1)
    IN  IF k.ret.row # -1 THEN [m |-> k.m, ret |-> k.ret, easy |-> FALSE]
        ELSE LET w == find_winning_move(k.m, cell_player2)
             IN  IF w.ret.row # -1 THEN [m |-> w.m, ret |-> w.ret, easy |-> FALSE]
                 ELSE LET s == HardSearch(w.m)
                          r == LowestEmpty(s.m.b, s.ret)
                      IN  IF r # -1
                          THEN [m |-> s.m, ret |-> GameMove(r, s.ret), easy |-> FALSE]
                          ELSE [m |-> s.m, ret |-> GameMove(-1, -1), easy |-> TRUE]

\* ai_hard_move.  easy = TRUE says that the function ended in its fallback,
\* the call of ai_easy_move.
ai_hard_move(m) ==
    LET w == find_winning_move(m, cell_player2)
    IN  IF w.ret.row # -1 THEN [m |-> w.m, ret |-> w.ret, easy |-> FALSE]
        ELSE LET k == find_winning_move(w.m, cell_player1)
             IN  IF k.ret.row # -1 THEN [m |-> k.m, ret |-> k.ret, easy |-> FALSE]
                 ELSE LET s == HardSearch(k.m)
                          r == LowestEmpty(s.m.b, s.ret)
                      IN  IF r # -1
                          THEN [m |-> s.m, ret |-> GameMove(r, s.ret), easy |-> FALSE]
                          ELSE [m |-> s.m, ret |-> GameMove(-1, -1), easy |-> TRUE]

----------------------------------------------------------------------------
(* menu.c, game.c, input.c: the menu and the four session loops *)

\* The calls into stats.h: count_game_*() at the head of game_init_*, and
\* the call next to the announcement of a win.
count_game(md) ==
    CASE md = "pvp" -> "count_game_pvp"
      [] md = "easy" -> "count_game_easy"
      [] md = "medium" -> "count_game_medium"
      [] md = "hard" -> "count_game_hard"

win_call(p, md) ==
    CASE md = "pvp" -> (IF p = cell_player1 THEN "player_1_win_pvp" ELSE "player_2_win_pvp")
      [] md = "easy" -> (IF p = cell_player1 THEN "player_1_win_easy" ELSE "pc_win_easy")
      [] md = "medium" -> (IF p = cell_player1 THEN "player_1_win_medium" ELSE "pc_win_medium")
      [] md = "hard" -> (IF p = cell_player1 THEN "player_1_win_hard" ELSE "pc_win_hard")

VARIABLES
    pc,           \* where the program is: "menu" (menu_loop reads a choice),
                  \* "top" (head of the while loop of game_init_*),
                  \* "input" (inside input_player_move), "easy" (inside
                  \* ai_easy_move), "over" (the result is on the screen,
                  \* press_enter_to_proceed)
    mode,         \* which game_init_* runs: "pvp", "easy", "medium", "hard"
    board,        \* Cell board[ROWS][COLS]
    count_moves,  \* locals of game_init_*
    turn,
    player,
    move,
    winner,
    reported,     \* what the session announced: "none", "draw", "player1",
                  \* "player2", "computer"
    retries,      \* depth of the recursive retry of input_player_move /
                  \* ai_easy_move
    sim,          \* the last call of ai_medium_move / ai_hard_move in this
                  \* session: the board it was called on, the writes it made,
                  \* the board it left and what it returned
    stats,        \* the functions of stats.h called since the session began,
                  \* in order
    call          \* the last call of minimax made from outside minimax: its
                  \* arguments, the board it was made on, the writes it made
                  \* and the value it returned

vars == <<pc, mode, board, count_moves, turn, player, move, winner, reported,
          retries, sim, stats, call>>

Modes == {"pvp", "easy", "medium", "hard"}

NoSim ==
    [called |-> FALSE, before |-> board_init, log |-> << >>, after |-> board_init,
     ret |-> GameMove(-1, -1), easy |-> FALSE]

NoCall ==
    [made |-> FALSE, depth |-> 0, alpha |-> 0, beta |-> 0, maximizing |-> 0,
     before |-> board_init, log |-> << >>, ret |-> 0]

\* The state before main() runs the menu: the global board is zero-filled.
Init ==
    /\ pc = "menu"
    /\ mode = "pvp"
    /\ board = board_init
    /\ count_moves = 0
    /\ turn = 0
    /\ player = cell_empty
    /\ move = GameMove(-1, -1)
    /\ winner = 0
    /\ reported = "none"
    /\ stats = << >>
    /\ call = NoCall
    /\ retries = 0
    /\ sim = NoSim

\* StartGame without the call of board_init(): the session starts on the
\* board the previous one left.
StartGame_NoInit(md) ==
    /\ pc = "menu"
    /\ mode' = md
    /\ count_moves' = 0
    /\ turn' = 0
    /\ winner' = 0
    /\ player' = cell_empty
    /\ move' = GameMove(-1, -1)
    /\ reported' = "none"
    /\ retries' = 0
    /\ sim' = NoSim
    /\ stats' = <<count_game(md)>>
    /\ call' = NoCall
    /\ pc' = "top"
    /\ UNCHANGED board

\* menu_loop, cases 1 and 2/1..3: board_init(), then game_init_* up to its
\* while loop.  move and player are uninitialised locals there; the loop
\* assigns both before it reads them.
StartGame(md) ==
    /\ pc = "menu"
    /\ mode' = md
    /\ board' = board_init
    /\ count_moves' = 0
    /\ turn' = 0
    /\ winner' = 0
    /\ player' = cell_empty
    /\ move' = GameMove(-1, -1)
    /\ reported' = "none"
    /\ retries' = 0
    /\ sim' = NoSim
    /\ stats' = <<count_game(md)>>
    /\ call' = NoCall
    /\ pc' = "top"

\* Head of the loop: "if (count_moves == BOARD_FULL)" prints the draw and
\* leaves the loop.
DrawCheck ==
    /\ pc = "top"
    /\ count_moves = BOARD_FULL
    /\ reported' = "draw"
    /\ pc' = "over"
    /\ UNCHANGED <<mode, board, count_moves, turn, player, move, winner, retries, sim, stats, call>>

\* HumanTurn without the assignments "turn = 1" / "turn = 0" of
\* game_init_pvp.
HumanTurn_NoFlip ==
    /\ pc = "top"
    /\ count_moves # BOARD_FULL
    /\ mode = "pvp" \/ turn = 0
    /\ player' = IF mode = "pvp" /\ turn # 0 THEN cell_player2 ELSE cell_player1
    /\ retries' = 0
    /\ pc' = "input"
    /\ UNCHANGED <<mode, board, count_moves, turn, move, winner, reported, sim, stats, call>>

\* The loop asks a human for a move.  game_init_pvp flips turn before the
\* call of input_player_move, the other three after it returns.
HumanTurn ==
    /\ pc = "top"
    /\ count_moves # BOARD_FULL
    /\ mode = "pvp" \/ turn = 0
    /\ player' = IF mode = "pvp" /\ turn # 0 THEN cell_player2 ELSE cell_player1
    /\ turn' = IF mode = "pvp" THEN (IF turn = 0 THEN 1 ELSE 0) ELSE turn
    /\ retries' = 0
    /\ pc' = "input"
    /\ UNCHANGED <<mode, board, count_moves, move, winner, reported, sim, stats, call>>

\* FinishPly with the draw test moved in front of the win test.
FinishPly_DrawFirst(mv, p, t) ==
    LET b2 == StoreCell(Mem(board), mv.row, mv.column, p).b
        n2 == count_moves + 1
        w  == IF n2 > 6 /\ n2 # BOARD_FULL THEN check_winner(b2, mv, p) ELSE winner
        won == n2 > 6 /\ n2 # BOARD_FULL /\ w = 1
    IN  /\ move' = mv
        /\ player' = p
        /\ turn' = t
        /\ board' = b2
        /\ count_moves' = n2
        /\ winner' = w
        /\ reported' = IF ~won THEN reported
                       ELSE IF p = cell_player1 THEN "player1"
                       ELSE IF mode = "pvp" THEN "player2"
                       ELSE "computer"
        /\ pc' = IF won THEN "over" ELSE "top"
        /\ retries' = 0
        /\ stats' = (IF won THEN Append(stats, win_call(p, mode)) ELSE stats)
        /\ UNCHANGED <<mode, call>>

\* FinishPly without the break after the announcement of a win.
FinishPly_NoBreak(mv, p, t) ==
    LET b2 == StoreCell(Mem(board), mv.row, mv.column, p).b
        n2 == count_moves + 1
        w  == IF n2 > 6 THEN check_winner(b2, mv, p) ELSE winner
        won == n2 > 6 /\ w = 1
    IN  /\ move' = mv
        /\ player' = p
        /\ turn' = t
        /\ board' = b2
        /\ count_moves' = n2
        /\ winner' = w
        /\ reported' = IF ~won THEN reported
                       ELSE IF p = cell_player1 THEN "player1"
                       ELSE IF mode = "pvp" THEN "player2"
                       ELSE "computer"
        /\ pc' = "top"
        /\ retries' = 0
        /\ stats' = (IF won THEN Append(stats, win_call(p, mode)) ELSE stats)
        /\ UNCHANGED <<mode, call>>

\* FinishPly naming the winner after turn, which by then is the other
\* player's.
FinishPly_ByTurn(mv, p, t) ==
    LET b2 == StoreCell(Mem(board), mv.row, mv.column, p).b
        n2 == count_moves + 1
        w  == IF n2 > 6 THEN check_winner(b2, mv, p) ELSE winner
        won == n2 > 6 /\ w = 1
    IN  /\ move' = mv
        /\ player' = p
        /\ turn' = t
        /\ board' = b2
        /\ count_moves' = n2
        /\ winner' = w
        /\ reported' = IF ~won THEN reported
                       ELSE IF t = 0 THEN "player1"
                       ELSE IF mode = "pvp" THEN "player2"
                       ELSE "computer"
        /\ pc' = IF won THEN "over" ELSE "top"
        /\ retries' = 0
        /\ stats' = (IF won THEN Append(stats, win_call(p, mode)) ELSE stats)
        /\ UNCHANGED <<mode, call>>

\* FinishPly without "count_moves++".
FinishPly_NoCount(mv, p, t) ==
    LET b2 == StoreCell(Mem(board), mv.row, mv.column, p).b
        n2 == count_moves
        w  == IF n2 > 6 THEN check_winner(b2, mv, p) ELSE winner
        won == n2 > 6 /\ w = 1
    IN  /\ move' = mv
        /\ player' = p
        /\ turn' = t
        /\ board' = b2
        /\ count_moves' = n2
        /\ winner' = w
        /\ reported' = IF ~won THEN reported
                       ELSE IF p = cell_player1 THEN "player1"
                       ELSE IF mode = "pvp" THEN "player2"
                       ELSE "computer"
        /\ pc' = IF won THEN "over" ELSE "top"
        /\ retries' = 0
        /\ stats' = (IF won THEN Append(stats, win_call(p, mode)) ELSE stats)
        /\ UNCHANGED <<mode, call>>

\* The rest of a loop iteration once the move mv of player p is known:
\* board[move.row][move.column] = player; count_moves++; and, when
\* count_moves > 6, check_winner and the announcement.  t is the value
\* turn has by then.
FinishPly(mv, p, t) ==
    LET b2 == StoreCell(Mem(board), mv.row, mv.column, p).b
        n2 == count_moves + 1
        w  == IF n2 > 6 THEN check_winner(b2, mv, p) ELSE winner
        won == n2 > 6 /\ w = 1
    IN  /\ move' = mv
        /\ player' = p
        /\ turn' = t
        /\ board' = b2
        /\ count_moves' = n2
        /\ winner' = w
        /\ reported' = IF ~won THEN reported
                       ELSE IF p = cell_player1 THEN "player1"
                       ELSE IF mode = "pvp" THEN "player2"
                       ELSE "computer"
        /\ pc' = IF won THEN "over" ELSE "top"
        /\ retries' = 0
        /\ stats' = (IF won THEN Append(stats, win_call(p, mode)) ELSE stats)
        /\ UNCHANGED <<mode, call>>

\* The columns the human types and the columns rand() % 7 yields: on the
\* opening plies the next column of Line, any column afterwards.
InputCols == IF count_moves < OpeningLen THEN {Line[count_moves + 1]} ELSE ColIdx

\* input_player_move accepting a full column: the piece replaces the one on
\* top of it.
InputFull_Accepted(col) ==
    /\ pc = "input"
    /\ col \in InputCols
    /\ LowestEmpty(board, col) = -1
    /\ FinishPly(GameMove(0, col), player, IF mode = "pvp" THEN turn ELSE 1)
    /\ UNCHANGED sim

\* input_player_move on a full column: "Column full", and the function
\* calls itself.
InputFull(col) ==
    /\ pc = "input"
    /\ col \in InputCols
    /\ LowestEmpty(board, col) = -1
    /\ retries < MaxRetries
    /\ retries' = retries + 1
    /\ UNCHANGED <<pc, mode, board, count_moves, turn, player, move, winner, reported, sim, stats, call>>

\* input_player_move asking again also after a column that is not full.
InputMove_Again(col) ==
    /\ pc = "input"
    /\ col \in InputCols
    /\ LowestEmpty(board, col) # -1
    /\ retries < MaxRetries
    /\ retries' = retries + 1
    /\ UNCHANGED <<pc, mode, board, count_moves, turn, player, move, winner, reported, sim, stats, call>>

\* input_player_move returns { row, column }, and the loop goes on.
InputMove(col) ==
    /\ pc = "input"
    /\ col \in InputCols
    /\ LowestEmpty(board, col) # -1
    /\ FinishPly(GameMove(LowestEmpty(board, col), col), player,
                 IF mode = "pvp" THEN turn ELSE 1)
    /\ UNCHANGED sim

\* The Easy loop calls ai_easy_move.
EasyTurn ==
    /\ pc = "top"
    /\ count_moves # BOARD_FULL
    /\ mode = "easy" /\ turn # 0
    /\ player' = cell_player2
    /\ retries' = 0
    /\ pc' = "easy"
    /\ UNCHANGED <<mode, board, count_moves, turn, move, winner, reported, sim, stats, call>>

\* ai_easy_move returning a full column it drew: the piece replaces the one
\* on top of it.
EasyFull_Accepted(col) ==
    /\ pc = "easy"
    /\ col \in InputCols
    /\ LowestEmpty(board, col) = -1
    /\ FinishPly(GameMove(0, col), cell_player2, 0)
    /\ UNCHANGED sim

\* ai_easy_move drew a full column and calls itself.
EasyFull(col) ==
    /\ pc = "easy"
    /\ col \in InputCols
    /\ LowestEmpty(board, col) = -1
    /\ retries < MaxRetries
    /\ retries' = retries + 1
    /\ UNCHANGED <<pc, mode, board, count_moves, turn, player, move, winner, reported, sim, stats, call>>

\* ai_easy_move returns { row, column }, and the loop goes on.
EasyMove(col) ==
    /\ pc = "easy"
    /\ col \in InputCols
    /\ LowestEmpty(board, col) # -1
    /\ FinishPly(GameMove(LowestEmpty(board, col), col), cell_player2, 0)
    /\ UNCHANGED sim

\* The draws of ai_medium_move.  FrontDraw(j) is the shuffle that swaps
\* position 0 with position j and every later position with itself.
FrontDraw(j) == <<j, 1, 2, 3, 4, 5, 6>>

PrefPos(col) == CHOOSE j \in 0 .. 6 : center_preference[j + 1] = col

MediumDraws ==
    IF count_moves < OpeningLen
    THEN {[r100 |-> 70, js |-> FrontDraw(PrefPos(Line[count_moves + 1]))]}
    ELSE {[r100 |-> r, js |-> FrontDraw(j)] : r \in {69, 70}, j \in 0 .. 6}

\* What the loop does with the answer a of ai_medium_move / ai_hard_move:
\* the rest of the iteration, or, when the function ended in its fallback,
\* on into ai_easy_move.
AiAnswer(a) ==
    /\ sim' = [called |-> TRUE, before |-> board, log |-> a.m.log, after |-> a.m.b,
               ret |-> a.ret, easy |-> a.easy]
    /\ IF a.easy
       THEN /\ pc' = "easy"
            /\ player' = cell_player2
            /\ retries' = 0
            /\ UNCHANGED <<mode, board, count_moves, turn, move, winner, reported, stats, call>>
       ELSE FinishPly(a.ret, cell_player2, 0)

MediumTurn(d) ==
    /\ pc = "top"
    /\ count_moves # BOARD_FULL
    /\ mode = "medium" /\ turn # 0
    /\ d \in MediumDraws
    /\ AiAnswer(ai_medium_move(Mem(board), d.r100, d.js))

\* The Hard loop placing the piece in a column drawn at random instead of
\* the column ai_hard_move returns.
HardTurn_Drawn ==
    /\ pc = "top"
    /\ count_moves # BOARD_FULL
    /\ mode = "hard" /\ turn # 0
    /\ \E col \in ColIdx :
           /\ LowestEmpty(board, col) # -1
           /\ AiAnswer([ai_hard_move(Mem(board)) EXCEPT
                           !.ret = GameMove(LowestEmpty(board, col), col)])

HardTurn ==
    /\ pc = "top"
    /\ count_moves # BOARD_FULL
    /\ mode = "hard" /\ turn # 0
    /\ AiAnswer(ai_hard_move(Mem(board)))

\* press_enter_to_proceed returns 0, the loop ends, game_init_* returns to
\* the menu.
Proceed ==
    /\ pc = "over"
    /\ pc' = "menu"
    /\ UNCHANGED <<mode, board, count_moves, turn, player, move, winner, reported, retries, sim, stats, call>>

Next ==
    \/ \E md \in Modes : StartGame(md)
    \/ DrawCheck
    \/ HumanTurn
    \/ \E col \in ColIdx : InputFull(col)
    \/ \E col \in ColIdx : InputMove(col)
    \/ EasyTurn
    \/ \E col \in ColIdx : EasyFull(col)
    \/ \E col \in ColIdx : EasyMove(col)
    \/ \E d \in MediumDraws : MediumTurn(d)
    \/ HardTurn
    \/ Proceed

Spec == Init /\ [][Next]_vars

\* The columns read from the opening line are the columns the search
\* computes: on every board of the line on which ai_hard_move reaches its
\* search, HardLoop settles on the next column of Line.
BookAgrees ==
    (/\ mode = "hard" /\ pc = "top" /\ turn # 0
     /\ InBook(board)
     /\ find_winning_move(Mem(board), cell_player2).ret.row = -1
     /\ find_winning_move(Mem(board), cell_player1).ret.row = -1)
        => HardLoop(Mem(board), get_valid_moves(board), 1, INT_MIN, 3).ret = BookColumn(board)

----------------------------------------------------------------------------
(* SpecWin: check_winner on boards built around one line *)

\* The four axes of check_winner: vertical, horizontal, diagonal "/"
\* (row decreases as the column increases) and diagonal "\".
Axes == {<<1, 0>>, <<0, 1>>, <<-1, 1>>, <<1, 1>>}

InBoard(r, c) == r \in RowIdx /\ c \in ColIdx

\* The cells of the board on the axis d through (r, c), (r, c) excluded.
AxisCells(r, c, d) ==
    {rc \in RowIdx \X ColIdx :
        /\ rc # <<r, c>>
        /\ \E k \in (0 - COLS) .. COLS : rc = <<r + k * d[1], c + k * d[2]>>}

\* A board around the line of axis d through (r, c): player p on (r, c) and
\* on the cells of S, `other` on the rest of the line, `filler` on every
\* cell that lies under a piece of the line, every other cell empty.
LineBoardOf(r, c, p, d, S, other, filler) ==
    LET L == AxisCells(r, c, d) \cup {<<r, c>>}
        onLine(rr, cc) == <<rr, cc>> \in L
        lineVal(rr, cc) ==
            IF <<rr, cc>> = <<r, c>> \/ <<rr, cc>> \in S THEN p ELSE other
        covered(rr, cc) ==
            \E r2 \in RowIdx : r2 < rr /\ onLine(r2, cc) /\ lineVal(r2, cc) # cell_empty
    IN  [rr \in RowIdx |-> [cc \in ColIdx |->
            IF onLine(rr, cc) THEN lineVal(rr, cc)
            ELSE IF covered(rr, cc) THEN filler
            ELSE cell_empty]]

\* No column has an empty cell under a piece.
Gravity(b) ==
    \A c \in ColIdx : \A r \in 0 .. (ROWS - 2) :
        b[r][c] # cell_empty => b[r + 1][c] # cell_empty

\* The positions check_winner is asked about: a last move (r, c) of player
\* p, any set S of further cells of p on one axis through it, the rest of
\* that axis empty or the opponent's, and the cells under the line filled
\* so that the pieces rest on something.
InitWin ==
    /\ pc = "synthetic"
    /\ mode = "pvp"
    /\ \E r \in RowIdx, c \in ColIdx, p \in {cell_player1, cell_player2}, d \in Axes :
         \E S \in SUBSET AxisCells(r, c, d) :
           \E f \in {<<cell_empty, p>>, <<Opponent(p), Opponent(p)>>} :
              /\ board = LineBoardOf(r, c, p, d, S, f[1], f[2])
              /\ move = GameMove(r, c)
              /\ player = p
    /\ Gravity(board)
    /\ count_moves = PieceCount(board)
    /\ turn = 0
    /\ winner = 0
    /\ reported = "none"
    /\ stats = << >>
    /\ call = NoCall
    /\ retries = 0
    /\ sim = NoSim

\* winner = check_winner(move, player)
CheckWinner ==
    /\ pc = "synthetic"
    /\ winner' = check_winner(board, move, player)
    /\ pc' = "checked"
    /\ UNCHANGED <<mode, board, count_moves, turn, player, move, reported, retries, sim, stats, call>>

SpecWin == InitWin /\ [][CheckWinner]_vars

\* Player p holds WIN_COUNT cells in a row, (r, c) among them, on some axis.
HasRun(b, r, c, p) ==
    \E d \in Axes : \E k \in 0 .. (WIN_COUNT - 1) :
        \A i \in 0 .. (WIN_COUNT - 1) :
            /\ InBoard(r + (i - k) * d[1], c + (i - k) * d[2])
            /\ b[r + (i - k) * d[1]][c + (i - k) * d[2]] = p

\* C1: check_winner((r, c), p) returns 1 if and only if some axis through
\* (r, c) holds a contiguous run of p's cells that includes (r, c) and has
\* length at least 4, and returns 0 otherwise.
C1_CheckWinnerIffRun ==
    pc = "checked" =>
        winner = (IF HasRun(board, move.row, move.column, player) THEN 1 ELSE 0)

\* A win found on a run of 5 cells or more, the last move inside it.
C1_Witness ==
    /\ pc = "checked"
    /\ winner = 1
    /\ \E d \in Axes :
         /\ InBoard(move.row - 2 * d[1], move.column - 2 * d[2])
         /\ InBoard(move.row + 2 * d[1], move.column + 2 * d[2])
         /\ \A i \in -2 .. 2 :
               board[move.row + i * d[1]][move.column + i * d[2]] = player

----------------------------------------------------------------------------
(* The session: how it ends *)

\* What a session announces when player p wins in mode md.
WinOf(p, md) ==
    IF p = cell_player1 THEN "player1"
    ELSE IF md = "pvp" THEN "player2"
    ELSE "computer"

\* The last placement of the session completed a 4-in-a-row.
LastCompletesRun == HasRun(board, move.row, move.column, player)

\* C2: a session that has ended ended in a draw exactly when 42 pieces were
\* placed and the 42nd did not complete a 4-in-a-row; when the 42nd
\* completes one, the session ended in the win of its mover.
C2_DrawIffFullNoWin ==
    pc = "over" =>
        /\ reported = "draw" <=> (count_moves = BOARD_FULL /\ ~LastCompletesRun)
        /\ (count_moves = BOARD_FULL /\ LastCompletesRun) => reported = WinOf(player, mode)

\* A draw of the Hard mode.
C2_Witness ==
    pc = "over" /\ mode = "hard" /\ reported = "draw" /\ count_moves = BOARD_FULL

\* A session won with the 42nd piece.
C2_WinOnLastCell ==
    pc = "over" /\ count_moves = BOARD_FULL /\ LastCompletesRun /\ reported # "draw"

----------------------------------------------------------------------------
(* Gravity and placement *)

\* The board after one logged write on b.
Write(b, w) ==
    IF InBoard(w.row, w.col) THEN [b EXCEPT ![w.row][w.col] = w.val] ELSE b

\* The element of a one-element set.
Only(S) == CHOOSE x \in S : TRUE

\* The writes log[lo] .. log[hi] replayed on b, one half after the other:
\* the board they leave, and whether Gravity held after each of them.
RECURSIVE GravityAlong(_, _, _, _)
GravityAlong(b, log, lo, hi) ==
    IF lo > hi THEN [b |-> b, ok |-> TRUE]
    ELSE IF lo = hi
         THEN Only({[b |-> b2, ok |-> Gravity(b2)] : b2 \in {Write(b, log[lo])}})
         ELSE Only({Only({[b |-> second.b, ok |-> first.ok /\ second.ok] :
                              second \in {GravityAlong(first.b, log, ((lo + hi) \div 2) + 1, hi)}}) :
                        first \in {GravityAlong(b, log, lo, (lo + hi) \div 2)}})

\* C3: no column has an empty cell below a piece, on the board between the
\* plies of a game and after every write of an AI simulation.
C3_Gravity ==
    /\ Gravity(board)
    /\ sim.called =>
           Gravity(sim.before) /\ GravityAlong(sim.before, sim.log, 1, Len(sim.log)).ok

\* ai_hard_move has just answered, with the column of a search it ran on a
\* board that is not of the opening line.
Searched ==
    /\ mode = "hard"
    /\ sim.called
    /\ count_moves = PieceCount(sim.before) + 1
    /\ ~InBook(sim.before)
    /\ find_winning_move(Mem(sim.before), cell_player2).ret.row = -1
    /\ find_winning_move(Mem(sim.before), cell_player1).ret.row = -1

C3_Witness ==
    /\ Searched
    /\ \E c \in ColIdx : board[ROWS - 1][c] # cell_empty /\ board[0][c] = cell_empty
    /\ \E i \in 1 .. Len(sim.log) : sim.log[i].val # cell_empty /\ sim.log[i].row < ROWS - 1

\* The lowest empty row of column c of b: the empty cell with the greatest
\* row index.
IsLowestEmpty(b, r, c) ==
    /\ InBoard(r, c)
    /\ b[r][c] = cell_empty
    /\ \A below \in (r + 1) .. (ROWS - 1) : b[below][c] # cell_empty

\* b2 is b with one piece more, on the lowest empty cell of some column.
OnePieceDropped(b, b2) ==
    \E r \in RowIdx, c \in ColIdx :
        /\ IsLowestEmpty(b, r, c)
        /\ b2[r][c] # cell_empty
        /\ b2 = [b EXCEPT ![r][c] = b2[r][c]]

\* The writes log[lo] .. log[hi] replayed on b: the board they leave, and
\* whether every piece among them was put on the lowest empty cell of its
\* column.
RECURSIVE DroppedAlong(_, _, _, _)
DroppedAlong(b, log, lo, hi) ==
    IF lo > hi THEN [b |-> b, ok |-> TRUE]
    ELSE IF lo = hi
         THEN [b |-> Write(b, log[lo]),
               ok |-> log[lo].val # cell_empty =>
                          IsLowestEmpty(b, log[lo].row, log[lo].col)]
         ELSE Only({Only({[b |-> second.b, ok |-> first.ok /\ second.ok] :
                              second \in {DroppedAlong(first.b, log, ((lo + hi) \div 2) + 1, hi)}}) :
                        first \in {DroppedAlong(b, log, lo, (lo + hi) \div 2)}})

\* C4: a step of a session that changes the board adds exactly one piece,
\* on the lowest empty cell of a column, and so does every placement of an
\* AI simulation.
C4_LandsOnLowestEmpty ==
    [][/\ (board' # board /\ pc # "menu") => OnePieceDropped(board, board')
       /\ sim'.called => DroppedAlong(sim'.before, sim'.log, 1, Len(sim'.log)).ok]_vars

\* A human piece and an AI piece have landed on other pieces, and the
\* search has stacked simulated pieces.
C4_Witness ==
    /\ Searched
    /\ \E c \in ColIdx, r \in 0 .. (ROWS - 2) :
           board[r][c] = cell_player1 /\ board[r + 1][c] # cell_empty
    /\ \E c \in ColIdx, r \in 0 .. (ROWS - 2) :
           board[r][c] = cell_player2 /\ board[r + 1][c] # cell_empty
    /\ \E i \in 1 .. Len(sim.log) : sim.log[i].val # cell_empty /\ sim.log[i].row < ROWS - 1

\* C5: make_move on a full column returns -1 and writes nothing; a step out
\* of input_player_move either is the rejection of a full column, which
\* leaves the board, the move count and turn as they are and asks again, or
\* puts the piece into a column that was not full.
C5_FullColumnRejected ==
    [][/\ \A col \in ColIdx, p \in {cell_player1, cell_player2} :
              board[0][col] # cell_empty =>
                  make_move(Mem(board), col, p) = [m |-> Mem(board), ret |-> -1]
       /\ pc = "input" =>
              \/ /\ pc' = "input"
                 /\ board' = board /\ count_moves' = count_moves /\ turn' = turn
              \/ /\ pc' # "input"
                 /\ board[0][move'.column] = cell_empty
                 /\ count_moves' = count_moves + 1]_vars

\* A full column has been typed and rejected, and the question is asked again.
C5_Witness ==
    /\ pc = "input"
    /\ retries > 0
    /\ \E col \in ColIdx : board[0][col] # cell_empty
    /\ count_moves < BOARD_FULL

\* C6: once a session has reported a win or a draw, no move is requested, no
\* cell is written and the move count stays, until the session has returned
\* to the menu.
C6_TerminalAbsorbing ==
    [][(reported # "none" /\ pc # "menu") =>
           /\ pc' \in {"over", "menu"}
           /\ board' = board
           /\ count_moves' = count_moves
           /\ reported' = reported]_vars

\* A session that ended in a win has returned to the menu with its board.
C6_Witness ==
    /\ pc = "menu"
    /\ reported \in {"player1", "player2", "computer"}
    /\ count_moves = PieceCount(board)

\* C7: when check_winner returns 1 for the placement just made, the session
\* ends on that ply and reports the win of the player whose piece it was:
\* Player 1 or Player 2 in PvP, the human for a Player1 piece and the
\* computer for a Player2 piece in the other modes.
C7_WinnerIsMover ==
    [][(/\ count_moves' = count_moves + 1
        /\ count_moves' > 6
        /\ check_winner(board', move', player') = 1) =>
           /\ pc' = "over"
           /\ board'[move'.row][move'.column] = player'
           /\ reported' = (IF mode = "pvp"
                           THEN (IF player' = cell_player1 THEN "player1" ELSE "player2")
                           ELSE (IF player' = cell_player1 THEN "player1" ELSE "computer"))]_vars

\* The computer has won a Medium session.
C7_Witness ==
    /\ pc = "over"
    /\ mode = "medium"
    /\ reported = "computer"
    /\ board[move.row][move.column] = cell_player2
    /\ check_winner(board, move, player) = 1

----------------------------------------------------------------------------
(* The AI: what its search returns and what it leaves behind *)

\* b with a piece of p dropped into column c.
Drop(b, c, p) ==
    LET r == CHOOSE r \in RowIdx : IsLowestEmpty(b, r, c)
    IN  [b EXCEPT ![r][c] = p]

OpenCols(b) == {c \in ColIdx : b[0][c] = cell_empty}

SetMax(S) == CHOOSE x \in S : \A y \in S : y <= x
SetMin(S) == CHOOSE x \in S : \A y \in S : x <= y

\* Minimax without pruning: the value of b for Player2, depth plies deep,
\* with the evaluator and the end-of-game test of the search.
RECURSIVE ExhaustiveValue(_, _, _)
ExhaustiveValue(b, depth, maximizing) ==
    IF depth = 0 \/ is_game_over(b) # 0 THEN evaluate_position(b, cell_player2)
    ELSE IF maximizing
         THEN SetMax({ExhaustiveValue(Drop(b, c, cell_player2), depth - 1, FALSE) :
                          c \in OpenCols(b)})
         ELSE SetMin({ExhaustiveValue(Drop(b, c, cell_player1), depth - 1, TRUE) :
                          c \in OpenCols(b)})

\* The column exhaustive minimax chooses: the leftmost of the columns of
\* greatest value.
ExhaustiveColumn(b) ==
    LET value == [c \in OpenCols(b) |->
                      ExhaustiveValue(Drop(b, c, cell_player2), SEARCH_DEPTH - 1, FALSE)]
    IN  CHOOSE c \in OpenCols(b) :
            /\ \A c2 \in OpenCols(b) : value[c2] <= value[c]
            /\ \A c2 \in OpenCols(b) : c2 < c => value[c2] < value[c]

\* The number of pieces exhaustive minimax places below b.
RECURSIVE ExhaustivePlaced(_, _, _)
ExhaustivePlaced(b, depth, p) ==
    IF depth = 0 \/ is_game_over(b) # 0 THEN 0
    ELSE LET cs == OpenCols(b)
             below == [c \in cs |-> ExhaustivePlaced(Drop(b, c, p), depth - 1, Opponent(p))]
             Sum[S \in SUBSET cs] ==
                 IF S = {} THEN 0
                 ELSE LET c == CHOOSE c \in S : TRUE
                      IN  1 + below[c] + Sum[S \ {c}]
         IN  Sum[cs]

\* The number of pieces a logged run has placed.
Placed(log) == Cardinality({i \in 1 .. Len(log) : log[i].val # cell_empty})

\* C8: on a board on which ai_hard_move reaches its search, the column it
\* returns is the column of exhaustive minimax of the same depth.
C8_PruningKeepsColumn ==
    Searched => sim.ret.column = ExhaustiveColumn(sim.before)

\* A search that was cut short: it placed fewer pieces than the exhaustive
\* search places (the two calls of find_winning_move place one per open
\* column each).
C8_Witness ==
    /\ Searched
    /\ Placed(sim.log) - 2 * Cardinality(OpenCols(sim.before))
           < ExhaustivePlaced(sim.before, SEARCH_DEPTH, cell_player2)
    /\ Cardinality(OpenCols(sim.before)) >= 3

\* The writes log[lo] .. log[hi] as placements and removals of simulated
\* pieces: stack is the pieces they place and leave, oldest first; early is
\* the removals of pieces placed before log[lo], first removal first; ok
\* says that every removal took the piece placed last among those on the
\* board.  The two halves are matched removal by removal.
Match(first, second) ==
    LET n == Len(first.stack)
        k == IF Len(second.early) < n THEN Len(second.early) ELSE n
    IN  [ok |-> /\ first.ok
                /\ second.ok
                /\ \A j \in 1 .. k : second.early[j] = first.stack[n - j + 1],
         early |-> first.early \o SubSeq(second.early, k + 1, Len(second.early)),
         stack |-> SubSeq(first.stack, 1, n - k) \o second.stack]

RECURSIVE Nesting(_, _, _)
Nesting(log, lo, hi) ==
    IF lo > hi THEN [ok |-> TRUE, early |-> << >>, stack |-> << >>]
    ELSE IF lo = hi
         THEN IF log[lo].val # cell_empty
              THEN [ok |-> TRUE, early |-> << >>, stack |-> <<<<log[lo].row, log[lo].col>>>>]
              ELSE [ok |-> TRUE, early |-> <<<<log[lo].row, log[lo].col>>>>, stack |-> << >>]
         ELSE Only({Match(first, second) :
                        first \in {Nesting(log, lo, (lo + hi) \div 2)},
                        second \in {Nesting(log, ((lo + hi) \div 2) + 1, hi)}})

\* Every removal of log takes the piece placed last, and no piece is left.
Lifo(log) ==
    LET n == Nesting(log, 1, Len(log))
    IN  n.ok /\ n.early = << >> /\ n.stack = << >>

\* C9: ai_medium_move and ai_hard_move, and find_winning_move on its own,
\* leave every cell as it was, and remove their simulated pieces last
\* placed first.
C9_BoardRestored ==
    /\ sim.called => sim.after = sim.before /\ Lifo(sim.log)
    /\ \A p \in {cell_player1, cell_player2} :
           LET w == find_winning_move(Mem(board), p)
           IN  w.m.b = board /\ Lifo(w.m.log)

\* A search that had simulated pieces three deep on the board has returned.
C9_Witness ==
    /\ Searched
    /\ sim.after = sim.before
    /\ \E i \in 1 .. (Len(sim.log) - 2) :
           /\ sim.log[i].val # cell_empty
           /\ sim.log[i + 1].val # cell_empty
           /\ sim.log[i + 2].val # cell_empty

\* C10: ai_medium_move and ai_hard_move return the lowest empty cell of a
\* column 0..6 of the board they were called on, never the row -1, and do
\* not end in their fallback.
C10_AiMoveValid ==
    sim.called =>
        /\ ~sim.easy
        /\ sim.ret.row # -1
        /\ sim.ret.column \in ColIdx
        /\ IsLowestEmpty(sim.before, sim.ret.row, sim.ret.column)
        /\ pc # "menu" => board[sim.ret.row][sim.ret.column] = cell_player2

\* The Hard search has returned a move on a board whose column 3 is full.
C10_Witness ==
    /\ Searched
    /\ sim.before[0][3] # cell_empty
    /\ sim.ret.column # 3
    /\ board[sim.ret.row][sim.ret.column] = cell_player2

----------------------------------------------------------------------------
(* The AI: the priority chain *)

\* The columns in which a drop of p completes a 4-in-a-row on b.
WinningDrops(b, p) ==
    {c \in OpenCols(b) :
        \E r \in RowIdx : IsLowestEmpty(b, r, c) /\ HasRun(Drop(b, c, p), r, c, p)}

\* mv is the drop into a column of cols on b.
DropsInto(b, mv, cols) ==
    mv.column \in cols /\ IsLowestEmpty(b, mv.row, mv.column)

\* Outcomes of the draws of ai_medium_move: rand() % 100 below and from
\* 70 on, and each column in front of the shuffled list.
AllDraws == {[r100 |-> r, js |-> FrontDraw(j)] : r \in {0, 69, 70, 99}, j \in 0 .. 6}

\* The computer is about to be asked for its move.
AiToMove == pc = "top" /\ turn # 0 /\ count_moves # BOARD_FULL

\* C11: whenever some legal drop completes a 4-in-a-row for Player2,
\* ai_medium_move returns such a drop, whatever it draws.
C11_MediumTakesWin ==
    /\ (mode = "medium" /\ sim.called /\ WinningDrops(sim.before, cell_player2) # {})
           => DropsInto(sim.before, sim.ret, WinningDrops(sim.before, cell_player2))
    /\ (mode = "medium" /\ AiToMove /\ WinningDrops(board, cell_player2) # {})
           => \A d \in AllDraws :
                  DropsInto(board, ai_medium_move(Mem(board), d.r100, d.js).ret,
                            WinningDrops(board, cell_player2))

\* Medium has won with a drop that was not the only one open to it.
C11_Witness ==
    /\ mode = "medium"
    /\ pc = "over"
    /\ reported = "computer"
    /\ sim.called
    /\ count_moves = PieceCount(sim.before) + 1
    /\ sim.ret.column \in WinningDrops(sim.before, cell_player2)
    /\ Cardinality(OpenCols(sim.before)) >= 3

SetLeast(S) == CHOOSE x \in S : \A y \in S : x <= y

\* C12: when Player2 has no winning drop and Player1 has one,
\* ai_medium_move and ai_hard_move return the drop into the leftmost column
\* in which Player1 would win, and the session puts Player2's piece there.
C12_Blocks ==
    (/\ mode \in {"medium", "hard"}
     /\ sim.called
     /\ WinningDrops(sim.before, cell_player2) = {}
     /\ WinningDrops(sim.before, cell_player1) # {})
        => /\ DropsInto(sim.before, sim.ret, {SetLeast(WinningDrops(sim.before, cell_player1))})
           /\ ~sim.easy
           /\ count_moves = PieceCount(sim.before) + 1
                  => board[sim.ret.row][sim.ret.column] = cell_player2

\* The computer has blocked the leftmost of two winning drops of Player1.
C12_Witness ==
    /\ mode \in {"medium", "hard"}
    /\ sim.called
    /\ count_moves = PieceCount(sim.before) + 1
    /\ WinningDrops(sim.before, cell_player2) = {}
    /\ Cardinality(WinningDrops(sim.before, cell_player1)) >= 2
    /\ board[sim.ret.row][sim.ret.column] = cell_player2

\* C13: when both players have a winning drop, ai_medium_move and
\* ai_hard_move return Player2's; and they place simulated pieces beyond
\* the two calls of find_winning_move (the strategic tier, the search) only
\* when neither player has one.
C13_PriorityOrder ==
    (mode \in {"medium", "hard"} /\ sim.called) =>
        /\ WinningDrops(sim.before, cell_player2) # {}
               => /\ DropsInto(sim.before, sim.ret, WinningDrops(sim.before, cell_player2))
                  /\ Placed(sim.log) <= Cardinality(OpenCols(sim.before))
        /\ Placed(sim.log) > 2 * Cardinality(OpenCols(sim.before))
               => /\ WinningDrops(sim.before, cell_player2) = {}
                  /\ WinningDrops(sim.before, cell_player1) = {}

\* Both players had a winning drop, in different columns, and the computer
\* took its own.
C13_Witness ==
    /\ mode \in {"medium", "hard"}
    /\ sim.called
    /\ count_moves = PieceCount(sim.before) + 1
    /\ WinningDrops(sim.before, cell_player2) # {}
    /\ WinningDrops(sim.before, cell_player1) # {}
    /\ sim.ret.column \notin WinningDrops(sim.before, cell_player1)
    /\ reported = "computer"

----------------------------------------------------------------------------
(* The Easy AI *)

\* C14: every move ai_easy_move returns is the lowest empty cell of a
\* column that is not full; when exactly one column is open, it is in that
\* column, whatever ai_easy_move drew before.
C14_EasyMoveValid ==
    [][(pc = "easy" /\ count_moves' = count_moves + 1) =>
           /\ move'.column \in OpenCols(board)
           /\ IsLowestEmpty(board, move'.row, move'.column)
           /\ board'[move'.row][move'.column] = cell_player2
           /\ Cardinality(OpenCols(board)) = 1 => OpenCols(board) = {move'.column}]_vars

\* An Easy game in which ai_easy_move, after drawing full columns, placed
\* the 42nd piece in the last open column.
C14_Witness ==
    /\ mode = "easy"
    /\ count_moves = BOARD_FULL
    /\ player = cell_player2
    /\ board[0][move.column] = cell_player2
    /\ move.row = 0

\* C15: ai_easy_move draws its column among the columns that are not full:
\* no call of it has drawn a full column and called itself again.
C15_EasyDrawsOpenColumn ==
    pc = "easy" => retries = 0

----------------------------------------------------------------------------
(* Win detection: the piece inside a run *)

\* How many cells in a row, going from (r, c) in direction (dr, dc), hold p.
Reach(b, r, c, dr, dc, p) ==
    Cardinality({k \in 1 .. COLS :
        \A i \in 1 .. k : InBoard(r + i * dr, c + i * dc) /\ b[r + i * dr][c + i * dc] = p})

\* The placed piece and what extends it on both sides along axis d.
RunThrough(b, r, c, d, p) ==
    1 + Reach(b, r, c, d[1], d[2], p) + Reach(b, r, c, 0 - d[1], 0 - d[2], p)

Bit(cond) == IF cond THEN 1 ELSE 0

\* C16: each check_* function reports a win exactly when the placed piece
\* plus the two extensions along one of its axes, taken as one total, is at
\* least 4; so a piece dropped inside a run (two neighbours on one side and
\* one on the other) is reported.
C16_RunCountsBothSides ==
    /\ check_vertical(board, move, player)
           = Bit(RunThrough(board, move.row, move.column, <<1, 0>>, player) >= WIN_COUNT)
    /\ check_horizontal(board, move, player)
           = Bit(RunThrough(board, move.row, move.column, <<0, 1>>, player) >= WIN_COUNT)
    /\ check_diagonal(board, move, player)
           = Bit(\/ RunThrough(board, move.row, move.column, <<-1, 1>>, player) >= WIN_COUNT
                 \/ RunThrough(board, move.row, move.column, <<1, 1>>, player) >= WIN_COUNT)

\* A win on a diagonal of exactly four, the placed piece inside it: two
\* neighbours on one side, one on the other.
C16_Witness ==
    /\ pc = "checked"
    /\ winner = 1
    /\ \E d \in {<<-1, 1>>, <<1, 1>>} :
          /\ Reach(board, move.row, move.column, d[1], d[2], player) = 2
          /\ Reach(board, move.row, move.column, 0 - d[1], 0 - d[2], player) = 1
    /\ check_diagonal(board, move, player) = 1
    /\ check_horizontal(board, move, player) = 0
    /\ check_vertical(board, move, player) = 0

----------------------------------------------------------------------------
(* The first plies of a game, every column open to either player *)

\* How many plies of free play are followed from the empty board.
EarlyPlies == 7

\* game_init_pvp entered on the board board_init() left.
InitEarly ==
    /\ pc = "top"
    /\ mode = "pvp"
    /\ board = board_init
    /\ count_moves = 0
    /\ turn = 0
    /\ player = cell_empty
    /\ move = GameMove(-1, -1)
    /\ winner = 0
    /\ reported = "none"
    /\ stats = <<count_game("pvp")>>
    /\ call = NoCall
    /\ retries = 0
    /\ sim = NoSim

\* One iteration of the loop in which the same player moves whatever turn
\* says.
OpenPly_SameMover(col) ==
    /\ pc = "top"
    /\ count_moves < EarlyPlies
    /\ LowestEmpty(board, col) # -1
    /\ FinishPly(GameMove(LowestEmpty(board, col), col), cell_player1,
                 IF turn = 0 THEN 1 ELSE 0)
    /\ UNCHANGED sim

\* One iteration of the loop of game_init_pvp: the player turn names, turn
\* flipped, input_player_move returning the lowest empty cell of a column
\* that is not full, then the placement and the test for a win.
OpenPly(col) ==
    /\ pc = "top"
    /\ count_moves < EarlyPlies
    /\ LowestEmpty(board, col) # -1
    /\ FinishPly(GameMove(LowestEmpty(board, col), col),
                 IF turn = 0 THEN cell_player1 ELSE cell_player2,
                 IF turn = 0 THEN 1 ELSE 0)
    /\ UNCHANGED sim

NextEarly == \E col \in ColIdx : OpenPly(col)

SpecEarly == InitEarly /\ [][NextEarly]_vars

\* Some player holds four cells in a row on b.
SomeRun(b) ==
    \E r \in RowIdx, c \in ColIdx : b[r][c] # cell_empty /\ HasRun(b, r, c, b[r][c])

\* C17: in a game of alternating legal drops from the empty board no
\* 4-in-a-row exists while fewer than 7 pieces are on the board; so the
\* loop, which calls check_winner only when count_moves > 6, has announced
\* every placement that completed one.
C17_NoWinBeforeSeven ==
    /\ count_moves < 7 => ~SomeRun(board)
    /\ (count_moves > 0 /\ LastCompletesRun) => (winner = 1 /\ pc = "over")

\* Six pieces on the board, no test for a win made yet, and either player
\* one drop away from four in a row.
C17_Witness ==
    /\ count_moves = 6
    /\ winner = 0
    /\ pc = "top"
    /\ WinningDrops(board, cell_player1) # {}
    /\ WinningDrops(board, cell_player2) # {}

----------------------------------------------------------------------------
(* The session: whose piece is placed *)

\* The cells of b that hold v.
CellsOf(b, v) == {rc \in RowIdx \X ColIdx : b[rc[1]][rc[2]] = v}

\* The player who places piece number n + 1 when the players alternate and
\* Player1 starts.
MoverAfter(n) == IF n % 2 = 0 THEN cell_player1 ELSE cell_player2

\* C18: the placements of a session alternate Player1, Player2, Player1,
\* ..., Player1 first; each ply changes exactly one cell, from Empty to the
\* mover's colour; and after every ply Player1 has as many pieces as
\* Player2 or one more.
C18_Alternation ==
    [][count_moves' = count_moves + 1 =>
           /\ player' = MoverAfter(count_moves)
           /\ \E rc \in CellsOf(board, cell_empty) :
                 /\ board'[rc[1]][rc[2]] = player'
                 /\ \A r \in RowIdx, c \in ColIdx :
                       <<r, c>> # rc => board'[r][c] = board[r][c]
           /\ Cardinality(CellsOf(board', cell_player1))
                  - Cardinality(CellsOf(board', cell_player2)) \in {0, 1}
           /\ Cardinality(CellsOf(board', cell_player1))
                  + Cardinality(CellsOf(board', cell_player2)) = count_moves']_vars

\* An Easy game after its 35th ply: Player1 has just placed an 18th piece
\* against 17 of the computer.
C18_Witness ==
    /\ mode = "easy"
    /\ count_moves = 35
    /\ player = cell_player1
    /\ board[move.row][move.column] = cell_player1
    /\ Cardinality(CellsOf(board, cell_player1)) = 18
    /\ Cardinality(CellsOf(board, cell_player2)) = 17

----------------------------------------------------------------------------
(* The session: how it starts *)

\* C19: every session, whatever is chosen in the menu and however the
\* session before it ended, starts with every cell empty and a move count
\* of 0.
C19_FreshStart ==
    [][(pc = "menu" /\ pc' # "menu") =>
           /\ \A r \in RowIdx, c \in ColIdx : board'[r][c] = cell_empty
           /\ count_moves' = 0
           /\ turn' = 0]_vars

\* The menu reached again after a drawn game: the next session is started
\* while all 42 cells hold pieces.
C19_Witness ==
    /\ pc = "menu"
    /\ reported = "draw"
    /\ count_moves = BOARD_FULL
    /\ CellsOf(board, cell_empty) = {}

----------------------------------------------------------------------------
(* The position evaluator *)

\* The 4-cell windows of the board along axis d, each as the set of its
\* cells.
WindowsAlong(d) ==
    {{<<r + i * d[1], c + i * d[2]>> : i \in 0 .. 3} : r \in RowIdx, c \in ColIdx}
        \cap SUBSET (RowIdx \X ColIdx)

AllWindows == UNION {WindowsAlong(d) : d \in Axes}

\* What one window is worth to player `who`.
WindowWorth(b, W, who) ==
    LET mine   == Cardinality({rc \in W : b[rc[1]][rc[2]] = who})
        theirs == Cardinality({rc \in W : b[rc[1]][rc[2]] = Opponent(who)})
    IN  IF mine = 4 THEN 100
        ELSE IF mine = 3 /\ theirs = 0 THEN 5
        ELSE IF mine = 2 /\ theirs = 0 THEN 2
        ELSE IF theirs = 4 THEN -100
        ELSE IF theirs = 3 /\ mine = 0 THEN -4
        ELSE 0

\* The windows of b worth v to player `who`.
WorthClass(b, who, v) == {W \in AllWindows : WindowWorth(b, W, who) = v}

\* The sum of WindowWorth over all windows.
SumOver(b, who) ==
    100 * Cardinality(WorthClass(b, who, 100))
    + 5 * Cardinality(WorthClass(b, who, 5))
    + 2 * Cardinality(WorthClass(b, who, 2))
    - 100 * Cardinality(WorthClass(b, who, -100))
    - 4 * Cardinality(WorthClass(b, who, -4))

\* The cells of the k-th window evaluate_position scans.
ScannedCells(k) ==
    {<<Windows[k].r + i * Windows[k].dr, Windows[k].c + i * Windows[k].dc>> : i \in 0 .. 3}

\* evaluate_position scans 24 horizontal, 21 vertical and 12 + 12 diagonal
\* windows, which are all the windows of the board, each once.
ScannedOnce ==
    /\ Cardinality(WindowsAlong(<<0, 1>>)) = 24
    /\ Cardinality(WindowsAlong(<<1, 0>>)) = 21
    /\ Cardinality(WindowsAlong(<<1, 1>>)) = 12
    /\ Cardinality(WindowsAlong(<<-1, 1>>)) = 12
    /\ {ScannedCells(k) : k \in 1 .. Len(Windows)} = AllWindows
    /\ Len(Windows) = Cardinality(AllWindows)

\* How many simulated drops of the search are followed.
EvalDepth == 3

\* ai_hard_move called on a position of the opening line in which Player2
\* is to move, Player1's last piece being the one just placed.
InitEval ==
    /\ pc = "search"
    /\ mode = "hard"
    /\ \E n \in 1 .. (BOARD_FULL - 1) :
          /\ n % 2 = 1
          /\ board = LineBoard[n]
          /\ count_moves = n
          /\ move = GameMove(LowestEmpty(LineBoard[n - 1], Line[n]), Line[n])
    /\ turn = 1
    /\ player = cell_player1
    /\ winner = 0
    /\ reported = "none"
    /\ stats = <<count_game("hard")>>
    /\ call = NoCall
    /\ retries = 0
    /\ sim = [called |-> TRUE, before |-> board, log |-> << >>, after |-> board,
              ret |-> GameMove(-1, -1), easy |-> FALSE]

\* The search goes one level down: make_move(col, ...) for a valid column,
\* Player2's piece on the maximizing levels and Player1's on the others.
SearchDrop(col) ==
    /\ pc = "search"
    /\ Len(sim.log) < EvalDepth
    /\ is_game_over(board) = 0
    /\ \E i \in 1 .. Len(get_valid_moves(board)) : get_valid_moves(board)[i] = col
    /\ LET d == make_move([b |-> board, log |-> sim.log], col,
                          IF Len(sim.log) % 2 = 0 THEN cell_player2 ELSE cell_player1)
       IN  /\ board' = d.m.b
           /\ sim' = [sim EXCEPT !.log = d.m.log, !.after = d.m.b]
    /\ UNCHANGED <<pc, mode, count_moves, turn, player, move, winner, reported, retries, stats, call>>

NextEval == \E col \in ColIdx : SearchDrop(col)

SpecEval == InitEval /\ [][NextEval]_vars

\* C20: evaluate_position(player) is the sum, over every 4-cell window of
\* the board (24 horizontal, 21 vertical, 12 on each diagonal direction,
\* each scanned once), of +100, +5, +2, -100, -4 or 0, plus 3 for each
\* piece of player in column 3.
C20_EvaluateIsWindowSum ==
    /\ ScannedOnce
    /\ \A p \in {cell_player1, cell_player2} :
          evaluate_position(board, p)
              = SumOver(board, p) + 3 * Cardinality({r \in RowIdx : board[r][3] = p})

\* A position with a window of each kind for Player2: four of its own,
\* three and an empty cell, two and two empty cells, three of the
\* opponent's and an empty cell, and a window with both colours.
C20_Witness ==
    /\ pc = "search"
    /\ \E W \in AllWindows : WindowWorth(board, W, cell_player2) = 100
    /\ \E W \in AllWindows : WindowWorth(board, W, cell_player2) = 5
    /\ \E W \in AllWindows : WindowWorth(board, W, cell_player2) = 2
    /\ \E W \in AllWindows : WindowWorth(board, W, cell_player2) = -4
    /\ \E W \in AllWindows :
          /\ \E rc \in W : board[rc[1]][rc[2]] = cell_player1
          /\ \E rc \in W : board[rc[1]][rc[2]] = cell_player2
    /\ \E r \in RowIdx : board[r][3] = cell_player2

----------------------------------------------------------------------------
(* The session: what it tells the statistics *)

\* A call that reports how a session ended, as opposed to count_game_*(),
\* which reports that one began.
IsEndEvent(e) == e \notin {count_game(md) : md \in Modes}

EndEvents == SelectSeq(stats, IsEndEvent)

\* A session that ended in a win made one call into the statistics for its
\* end, the one of the actual winner in the session's mode, after the one
\* count_game call of that mode.
WinEmitsWinnerOnly ==
    (pc = "over" /\ reported # "draw") =>
        stats = <<count_game(mode), win_call(player, mode)>>

\* C21: every session that has ended has made exactly one call into the
\* statistics that reports its end, tagged with the mode and the outcome: a
\* draw for a drawn game, the actual winner's win otherwise.
C21_OneEndEvent ==
    pc = "over" =>
        /\ Len(EndEvents) = 1
        /\ reported # "draw" => EndEvents[1] = win_call(player, mode)

----------------------------------------------------------------------------
(* Scenario: Player1 stacks column 3 *)

RECURSIVE DropAll(_, _, _)
DropAll(b, cols, p) ==
    IF cols = << >> THEN b ELSE DropAll(Drop(b, Head(cols), p), Tail(cols), p)

\* Player1 has just placed its n-th piece in column 3, on top of its
\* others, and Player2 has answered each earlier one with the drops theirs.
StackedThree(n, theirs) ==
    /\ count_moves = 2 * n - 1
    /\ board = DropAll(DropAll(board_init, [i \in 1 .. n |-> 3], cell_player1),
                       theirs, cell_player2)
    /\ move = GameMove(ROWS - n, 3)
    /\ player = cell_player1

\* Player2's answers in the scenario: columns 2 and 4, in either order.
Answers(k) ==
    IF k = 0 THEN {<< >>}
    ELSE IF k = 1 THEN {<<2>>, <<4>>}
    ELSE IF k = 2 THEN {<<2, 4>>}
    ELSE {<<2, 4, c>> : c \in ColIdx \ {3}}

AtDrop(n) == \E theirs \in Answers(n - 1) : StackedThree(n, theirs)

\* C22, as stated: with Player1 dropping into column 3 three times (rows 5,
\* 4, 3) and Player2 into columns 2 and 4, check_winner returns 1 at
\* Player1's third placement and 0 at the two before.
C22_ThirdDropWins ==
    /\ (AtDrop(1) \/ AtDrop(2)) => check_winner(board, move, player) = 0
    /\ AtDrop(3) => check_winner(board, move, player) = 1

\* C22, amended: check_winner returns 0 at each of Player1's first three
\* placements in column 3 and the session goes on; it returns 1 at the
\* fourth (row 2), which the session announces as Player1's win.
C22_FourthDropWins ==
    /\ (AtDrop(1) \/ AtDrop(2) \/ AtDrop(3)) =>
           /\ check_winner(board, move, player) = 0
           /\ check_vertical(board, move, player) = 0
           /\ pc = "top" /\ reported = "none"
    /\ AtDrop(4) =>
           /\ check_winner(board, move, player) = 1
           /\ check_vertical(board, move, player) = 1
           /\ winner = 1 /\ pc = "over" /\ reported = "player1"

\* Player1's fourth piece in column 3 has been placed and announced.
C22_Witness ==
    /\ AtDrop(4)
    /\ winner = 1
    /\ \A r \in 2 .. 5 : board[r][3] = cell_player1

----------------------------------------------------------------------------
(* The session: no win goes unnoticed *)

\* The session is waiting for a move: at the head of its loop, or inside
\* input_player_move or ai_easy_move.
InProgress == pc \in {"top", "input", "easy"}

\* Some 4-cell window of b holds four pieces of one player.
FourInWindow(b) ==
    \E W \in AllWindows : \E p \in {cell_player1, cell_player2} :
        \A rc \in W : b[rc[1]][rc[2]] = p

\* C23: while a session is in progress, in any of the four modes, no player
\* holds four cells in a row on any axis of the board.
C23_NoRunInProgress ==
    InProgress => ~FourInWindow(board)

\* A session going on with more than 6 pieces on the board, after a ply on
\* which check_winner was called and found nothing, while each player is
\* one drop away from four in a row.
C23_Witness ==
    /\ InProgress
    /\ count_moves > 6
    /\ winner = 0
    /\ WinningDrops(board, cell_player1) # {}
    /\ WinningDrops(board, cell_player2) # {}

----------------------------------------------------------------------------
(* Win detection: the last move against the whole board *)

\* A ply has just been completed: move and player are those of the piece
\* placed last.
AfterPly == count_moves > 0 /\ pc \in {"top", "over"}

\* b without the piece on (r, c).
Without(b, r, c) == [b EXCEPT ![r][c] = cell_empty]

\* C24: on every board reached by legal play that held no 4-in-a-row
\* before the last drop, check_winner(last move, mover) returns 1 exactly
\* when a scan of the whole board finds four in a row of some player on
\* some axis.
C24_LastMoveCheckIsWholeScan ==
    (AfterPly /\ ~FourInWindow(Without(board, move.row, move.column))) =>
        check_winner(board, move, player) = Bit(FourInWindow(board))

\* A game the computer won on a diagonal: the board held no run before its
\* last piece and holds one now.
C24_Witness ==
    /\ AfterPly
    /\ pc = "over"
    /\ reported = "computer"
    /\ ~FourInWindow(Without(board, move.row, move.column))
    /\ FourInWindow(board)
    /\ check_diagonal(board, move, player) = 1
    /\ check_winner(board, move, player) = 1

----------------------------------------------------------------------------
(* minimax called on its own *)

\* The deepest call and the emptiest board that are tried.
ABDepth == 4
ABEmpty == 7

\* The bounds of the windows that are tried.  The values of these positions
\* lie around -90, around 10 and above 100, and the finite bounds lie
\* between them.
Cuts == {INT_MIN, -88, 8, 12, INT_MAX}

\* A position of the line with at most ABEmpty empty cells, the full board
\* among them, as a search of ai_hard_move finds it.
InitAB ==
    /\ pc = "search"
    /\ mode = "hard"
    /\ \E n \in (BOARD_FULL - ABEmpty) .. BOARD_FULL :
          /\ board = LineBoard[n]
          /\ count_moves = n
          /\ move = GameMove(LowestEmpty(LineBoard[n - 1], Line[n]), Line[n])
          /\ player = MoverAfter(n - 1)
          /\ turn = n % 2
    /\ winner = 0
    /\ reported = "none"
    /\ stats = <<count_game("hard")>>
    /\ call = NoCall
    /\ retries = 0
    /\ sim = NoSim

\* minimax(depth, alpha, beta, maximizing, cell_player2) called and back.
MinimaxCall(depth, alpha, beta, maximizing) ==
    /\ pc = "search"
    /\ alpha < beta
    /\ \E r \in {minimax(Mem(board), depth, alpha, beta, maximizing, cell_player2)} :
          /\ call' = [made |-> TRUE, depth |-> depth, alpha |-> alpha, beta |-> beta,
                      maximizing |-> maximizing, before |-> board, log |-> r.m.log,
                      ret |-> r.ret]
          /\ board' = r.m.b
    /\ pc' = "returned"
    /\ UNCHANGED <<mode, count_moves, turn, player, move, winner, reported, retries,
                   sim, stats>>

\* How many simulated drops are made before minimax is called.
ABDrops == 2

\* The search above the call: on a position in which Player2 is to move,
\* make_move(col, ...) for a valid column, Player2's piece first, then
\* Player1's.
ABDrop(col) ==
    /\ pc = "search"
    /\ count_moves % 2 = 1
    /\ Len(sim.log) < ABDrops
    /\ is_game_over(board) = 0
    /\ \E i \in 1 .. Len(get_valid_moves(board)) : get_valid_moves(board)[i] = col
    /\ LET d == make_move([b |-> board, log |-> sim.log], col,
                          IF Len(sim.log) % 2 = 0 THEN cell_player2 ELSE cell_player1)
       IN  /\ board' = d.m.b
           /\ sim' = [sim EXCEPT !.log = d.m.log, !.after = d.m.b]
    /\ UNCHANGED <<pc, mode, count_moves, turn, player, move, winner, reported, retries,
                   stats, call>>

NextAB ==
    \/ \E col \in ColIdx : ABDrop(col)
    \/ \E depth \in 0 .. ABDepth, alpha \in Cuts, beta \in Cuts, maximizing \in {0, 1} :
          MinimaxCall(depth, alpha, beta, maximizing)

SpecAB == InitAB /\ [][NextAB]_vars

\* The value of exhaustive minimax for the last call.
CallValue == ExhaustiveValue(call.before, call.depth, call.maximizing # 0)

\* C25: with v the value of exhaustive minimax of the same depth and side,
\* minimax(depth, alpha, beta, ...) returns v when alpha < v < beta, a value
\* at most alpha when v <= alpha, a value at least beta when v >= beta, and
\* v with the window (INT_MIN, INT_MAX).
C25_AlphaBetaBounds ==
    call.made =>
        \A v \in {CallValue} :
            /\ (call.alpha < v /\ v < call.beta) => call.ret = v
            /\ v <= call.alpha => call.ret <= call.alpha
            /\ v >= call.beta => call.ret >= call.beta
            /\ (call.alpha = INT_MIN /\ call.beta = INT_MAX) => call.ret = v

\* A call that was cut short and came back with a bound that is not the
\* exhaustive value.
C25_Witness ==
    /\ call.made
    /\ call.depth = ABDepth
    /\ call.ret # CallValue
    /\ Placed(call.log) > 0

\* The board after writes lo .. hi of log, and whether each piece among
\* them was placed on a board without a run.
RECURSIVE NoDropOnRun(_, _, _, _)
NoDropOnRun(b, log, lo, hi) ==
    IF lo > hi THEN [b |-> b, ok |-> TRUE]
    ELSE IF lo = hi
         THEN [b |-> Write(b, log[lo]),
               ok |-> (log[lo].val # cell_empty => ~FourInWindow(b))]
         ELSE Only({Only({[b |-> second.b, ok |-> first.ok /\ second.ok] :
                              second \in {NoDropOnRun(first.b, log, ((lo + hi) \div 2) + 1, hi)}}) :
                        first \in {NoDropOnRun(b, log, lo, (lo + hi) \div 2)}})

\* The position the last call was made on is finished: some player holds
\* four in a row, or no column is open.
CallOnFinished == FourInWindow(call.before) \/ OpenCols(call.before) = {}

\* C26: minimax returns evaluate_position(cell_player2) of the board as it
\* is, and places no piece, whenever depth is 0 or the board is finished;
\* and no piece of a search is placed on a board that holds four in a row.
C26_TerminalIsEvaluated ==
    call.made =>
        /\ (call.depth = 0 \/ CallOnFinished) =>
               /\ call.ret = evaluate_position(call.before, cell_player2)
               /\ call.log = << >>
        /\ NoDropOnRun(call.before, call.log, 1, Len(call.log)).ok

\* minimax called with depth left and columns open on a board on which
\* Player1 already holds four in a row.
C26_Witness ==
    /\ call.made
    /\ call.depth > 0
    /\ OpenCols(call.before) # {}
    /\ FourInWindow(call.before)
    /\ call.ret = evaluate_position(call.before, cell_player2)
    /\ call.log = << >>

\* C27: minimax entered with depth > 0 on a board on which no valid column
\* remains returns 0, whatever the evaluation of that board.
C27_NoColumnReturnsZero ==
    (call.made /\ call.depth > 0 /\ get_valid_moves(call.before) = << >>) =>
        call.ret = 0

\* What minimax does return there: the evaluation of the board, which
\* is_game_over() has declared finished.
FullBoardIsEvaluated ==
    (call.made /\ call.depth > 0 /\ get_valid_moves(call.before) = << >>) =>
        /\ is_game_over(call.before) = 1
        /\ call.ret = evaluate_position(call.before, cell_player2)

----------------------------------------------------------------------------
(* game_init_hard from a late position of the opening line *)

\* How many cells are empty, at most, where the Hard session is taken up.
HardEmpty == 10

\* The loop of game_init_hard at the top of an iteration, after the first n
\* plies of the opening line.
InitHard ==
    /\ pc = "top"
    /\ mode = "hard"
    /\ \E n \in (BOARD_FULL - HardEmpty) .. BOARD_FULL :
          /\ board = LineBoard[n]
          /\ count_moves = n
          /\ move = GameMove(LowestEmpty(LineBoard[n - 1], Line[n]), Line[n])
          /\ player = MoverAfter(n - 1)
          /\ turn = n % 2
    /\ winner = 0
    /\ reported = "none"
    /\ stats = <<count_game("hard")>>
    /\ call = NoCall
    /\ retries = 0
    /\ sim = NoSim

NextHard ==
    \/ DrawCheck
    \/ HumanTurn
    \/ \E col \in ColIdx : InputFull(col)
    \/ \E col \in ColIdx : InputMove(col)
    \/ HardTurn

SpecHard == InitHard /\ [][NextHard]_vars

\* ai_hard_move has just answered on a board without a winning column for
\* either side.
HardSearched ==
    /\ mode = "hard"
    /\ sim.called
    /\ pc \in {"top", "over"}
    /\ count_moves = PieceCount(sim.before) + 1
    /\ WinningDrops(sim.before, cell_player2) = {}
    /\ WinningDrops(sim.before, cell_player1) = {}

\* Player2's piece simulated in column c of b and scored: minimax one ply
\* less deep than SEARCH_DEPTH, full window, Player1 to move.
ColumnScore(b, c) ==
    minimax(Mem(Drop(b, c, cell_player2)), SEARCH_DEPTH - 1, INT_MIN, INT_MAX, 0,
            cell_player2)

\* The writes of the simulation of column c: the piece, the writes of its
\* scoring, the removal of the piece.
ColumnWrites(b, c, scored) ==
    <<[row |-> LowestEmpty(b, c), col |-> c, val |-> cell_player2]>>
        \o scored.m.log
        \o <<[row |-> LowestEmpty(b, c), col |-> c, val |-> cell_empty]>>

\* The writes of the columns c, c + 1, ... one after the other.
RECURSIVE WritesFrom(_, _, _)
WritesFrom(b, c, scored) ==
    IF c >= COLS THEN << >>
    ELSE IF c \in OpenCols(b)
         THEN ColumnWrites(b, c, scored[c]) \o WritesFrom(b, c + 1, scored)
         ELSE WritesFrom(b, c + 1, scored)

\* The lowest of the columns of greatest score.
LeftmostBest(b, scored) ==
    SetMin({c \in OpenCols(b) : \A c2 \in OpenCols(b) : scored[c2].ret <= scored[c].ret})

\* C28: when neither side has a winning column, ai_hard_move simulates
\* Player2's piece in each valid column in ascending order, scores each with
\* minimax at depth 4 with Player1 to move, and returns the landing cell of
\* the lowest column among those of greatest score.
C28_LeftmostBestColumn ==
    HardSearched =>
        \A scored \in {[c \in OpenCols(sim.before) |-> ColumnScore(sim.before, c)]} :
            /\ SEARCH_DEPTH - 1 = 4
            /\ sim.ret.column = LeftmostBest(sim.before, scored)
            /\ sim.ret.row = LowestEmpty(sim.before, sim.ret.column)
            /\ sim.log = find_winning_move(Mem(sim.before), cell_player2).m.log
                             \o find_winning_move(Mem(sim.before), cell_player1).m.log
                             \o WritesFrom(sim.before, 0, scored)
            /\ sim.after = sim.before

\* A search in which two columns share the greatest score and a third one
\* scores less.
C28_Witness ==
    /\ HardSearched
    /\ \E c \in OpenCols(sim.before) :
          /\ c > sim.ret.column
          /\ ColumnScore(sim.before, c).ret = ColumnScore(sim.before, sim.ret.column).ret
    /\ \E c \in OpenCols(sim.before) :
          ColumnScore(sim.before, c).ret < ColumnScore(sim.before, sim.ret.column).ret

----------------------------------------------------------------------------
(* game_init_hard from the middle of the opening line, the human typing any
   column *)

\* How many cells are empty, at most, where this session is taken up.
ForcedEmpty == 16

InitForced ==
    /\ pc = "top"
    /\ mode = "hard"
    /\ \E n \in (BOARD_FULL - ForcedEmpty) .. BOARD_FULL :
          /\ board = LineBoard[n]
          /\ count_moves = n
          /\ move = GameMove(LowestEmpty(LineBoard[n - 1], Line[n]), Line[n])
          /\ player = MoverAfter(n - 1)
          /\ turn = n % 2
    /\ winner = 0
    /\ reported = "none"
    /\ stats = <<count_game("hard")>>
    /\ call = NoCall
    /\ retries = 0
    /\ sim = NoSim

\* input_player_move finds the column typed full and calls itself.
TypedFull(col) ==
    /\ pc = "input"
    /\ LowestEmpty(board, col) = -1
    /\ retries < MaxRetries
    /\ retries' = retries + 1
    /\ UNCHANGED <<pc, mode, board, count_moves, turn, player, move, winner, reported,
                   sim, stats, call>>

\* input_player_move returns { row, column } for the column typed, and the
\* iteration of game_init_hard goes on.
TypedMove(col) ==
    /\ pc = "input"
    /\ LowestEmpty(board, col) # -1
    /\ FinishPly(GameMove(LowestEmpty(board, col), col), player, 1)
    /\ UNCHANGED sim

NextForced ==
    \/ DrawCheck
    \/ HumanTurn
    \/ \E col \in ColIdx : TypedFull(col)
    \/ \E col \in ColIdx : TypedMove(col)
    \/ HardTurn

SpecForced == InitForced /\ [][NextForced]_vars

\* ai_hard_move has just answered on a board with a winning column for
\* Player2 or for Player1: it returned from its first or second priority.
ShortCircuited ==
    /\ mode = "hard"
    /\ sim.called
    /\ pc \in {"top", "over"}
    /\ count_moves = PieceCount(sim.before) + 1
    /\ \/ WinningDrops(sim.before, cell_player2) # {}
       \/ WinningDrops(sim.before, cell_player1) # {}

\* The column the search loop of ai_hard_move settles on when it is run on b.
SearchColumn(b) == HardLoop(Mem(b), get_valid_moves(b), 1, INT_MIN, 3).ret

\* C29: when ai_hard_move returns its immediate win or its immediate block,
\* the column is the one its search loop would have settled on on the same
\* board.
C29_SearchFindsForcedMove ==
    ShortCircuited => sim.ret.column = SearchColumn(sim.before)

----------------------------------------------------------------------------
(* The Medium AI: the strategic move *)

\* ai_medium_move has just answered on a board without a winning column for
\* either side, with the move of find_best_strategic_move.
StrategicAnswer ==
    /\ mode = "medium"
    /\ sim.called
    /\ pc \in {"top", "over"}
    /\ count_moves = PieceCount(sim.before) + 1
    /\ WinningDrops(sim.before, cell_player2) = {}
    /\ WinningDrops(sim.before, cell_player1) = {}
    /\ sim.ret = find_best_strategic_move(Mem(sim.before), cell_player2).ret

\* The longest run of p through the landing cell of column c of b, the
\* piece placed, along the row or along the column.
LongestRun(b, c, p) ==
    LET r  == LowestEmpty(b, c)
        b2 == Drop(b, c, p)
        h  == RunThrough(b2, r, c, <<0, 1>>, p)
        v  == RunThrough(b2, r, c, <<1, 0>>, p)
    IN  IF h >= v THEN h ELSE v

\* The longest run plus 3 for column 3, 2 for columns 2 and 4, 1 for
\* columns 1 and 5, 0 for columns 0 and 6.
LongestRunScore(b, c) ==
    LongestRun(b, c, cell_player2)
        + (CASE c = 3 -> 3 [] c \in {2, 4} -> 2 [] c \in {1, 5} -> 1 [] OTHER -> 0)

\* C30: the strategic move of the Medium AI is the landing cell of the
\* lowest column among those of greatest score, the score being the longest
\* horizontal or vertical run of Player2 through the landing cell plus the
\* positional bonus 3 / 2 / 1 / 0.
C30_LongestRunPlusBonus ==
    StrategicAnswer =>
        /\ sim.ret.row = LowestEmpty(sim.before, sim.ret.column)
        /\ sim.ret.column =
               SetMin({c \in OpenCols(sim.before) :
                          \A c2 \in OpenCols(sim.before) :
                              LongestRunScore(sim.before, c2) <= LongestRunScore(sim.before, c)})

\* What find_best_strategic_move does score: count_threats, the horizontal
\* run and the vertical run added, each counted only from 2 cells on, plus
\* the same bonus.
ThreatScore(b, c) ==
    LET r  == LowestEmpty(b, c)
        b2 == Drop(b, c, cell_player2)
        h  == RunThrough(b2, r, c, <<0, 1>>, cell_player2)
        v  == RunThrough(b2, r, c, <<1, 0>>, cell_player2)
    IN  (IF h >= 2 THEN h ELSE 0) + (IF v >= 2 THEN v ELSE 0)
            + (CASE c = 3 -> 3 [] c \in {2, 4} -> 2 [] c \in {1, 5} -> 1 [] OTHER -> 0)

StrategicIsRunSum ==
    StrategicAnswer =>
        /\ sim.ret.row = LowestEmpty(sim.before, sim.ret.column)
        /\ sim.ret.column =
               SetMin({c \in OpenCols(sim.before) :
                          \A c2 \in OpenCols(sim.before) :
                              ThreatScore(sim.before, c2) <= ThreatScore(sim.before, c)})

----------------------------------------------------------------------------
(* game_init_medium late in a game that has filled the five inner columns *)

\* The first 30 plies of a Medium session, first column first, odd plies
\* Player1's: no ply completes a 4-in-a-row, before no Player2 ply does
\* Player2 have a winning column, and every Player2 ply is a move
\* ai_medium_move can return on the board before it (MediumLineIsPlayed).
\* They fill columns 1 to 5 and leave columns 0 and 6 empty.
MediumLine ==
    <<3, 4, 3, 4, 4, 2, 1, 4, 2, 2, 2, 4, 5, 3, 4, 2, 2, 3, 1, 1, 5, 1, 1, 1, 3,
      5, 5, 5, 5, 3>>

\* The board after the first n plies of MediumLine.
MediumBoard[n \in 0 .. Len(MediumLine)] ==
    IF n = 0 THEN board_init
    ELSE LET b == MediumBoard[n - 1]
             col == MediumLine[n]
         IN  [b EXCEPT ![LowestEmpty(b, col)][col] =
                 IF n % 2 = 1 THEN cell_player1 ELSE cell_player2]

\* The draws of ai_medium_move: rand() % 100 on either side of 70, and each
\* column in front of the shuffled list.
FreeDraws == {[r100 |-> r, js |-> FrontDraw(j)] : r \in {69, 70}, j \in 0 .. 6}

MediumLineIsPlayed ==
    \A n \in 1 .. Len(MediumLine) :
        /\ LowestEmpty(MediumBoard[n - 1], MediumLine[n]) # -1
        /\ ~HasRun(MediumBoard[n], LowestEmpty(MediumBoard[n - 1], MediumLine[n]),
                   MediumLine[n], MoverAfter(n - 1))
        /\ n % 2 = 0 =>
               \E d \in FreeDraws :
                   ai_medium_move(Mem(MediumBoard[n - 1]), d.r100, d.js).ret.column
                       = MediumLine[n]

\* How many plies before the end of MediumLine the session is taken up, at
\* most.
MediumBack == 2

InitMedium ==
    /\ pc = "top"
    /\ mode = "medium"
    /\ \E n \in (Len(MediumLine) - MediumBack) .. Len(MediumLine) :
          /\ board = MediumBoard[n]
          /\ count_moves = n
          /\ move = GameMove(LowestEmpty(MediumBoard[n - 1], MediumLine[n]), MediumLine[n])
          /\ player = MoverAfter(n - 1)
          /\ turn = n % 2
    /\ winner = 0
    /\ reported = "none"
    /\ stats = <<count_game("medium")>>
    /\ call = NoCall
    /\ retries = 0
    /\ sim = NoSim

\* The Medium loop calls ai_medium_move, which draws d.
MediumReply(d) ==
    /\ pc = "top"
    /\ count_moves # BOARD_FULL
    /\ mode = "medium" /\ turn # 0
    /\ AiAnswer(ai_medium_move(Mem(board), d.r100, d.js))

NextMedium ==
    \/ DrawCheck
    \/ HumanTurn
    \/ \E col \in ColIdx : TypedFull(col)
    \/ \E col \in ColIdx : TypedMove(col)
    \/ \E d \in FreeDraws : MediumReply(d)

SpecMedium == InitMedium /\ [][NextMedium]_vars

\* Neither side has a winning column on b and no open column has a positive
\* score in find_best_strategic_move.
NothingScores(b) ==
    /\ WinningDrops(b, cell_player2) = {}
    /\ WinningDrops(b, cell_player1) = {}
    /\ OpenCols(b) # {}
    /\ \A c \in OpenCols(b) : ThreatScore(b, c) = 0

\* C31: when the best score of find_best_strategic_move is 0, ai_medium_move
\* skips the strategic tier whatever rand() % 100 is, and its move is the
\* first open column of the shuffled center_preference.
C31_ZeroScoreGoesToShuffle ==
    [][\A d \in FreeDraws :
          (MediumReply(d) /\ NothingScores(board)) =>
              move' = FirstValid(board, Shuffle(d.js), 0)]_vars

\* What ai_medium_move does there: with rand() % 100 below 70 it returns the
\* move of find_best_strategic_move, score 0 or not.
ZeroScoreIsPlayed ==
    [][\A d \in FreeDraws :
          (MediumReply(d) /\ NothingScores(board) /\ d.r100 < 70) =>
              move' = find_best_strategic_move(Mem(board), cell_player2).ret]_vars

----------------------------------------------------------------------------
(* is_game_over *)

TopRowFull(b) == \A c \in ColIdx : b[0][c] # cell_empty

\* C32: is_game_over returns 1 exactly when four cells in a row on some
\* axis hold the same player's pieces or no cell of row 0 is empty, and 0
\* otherwise; a minimax call that ends on this test has written nothing to
\* the board.
C32_GameOverIffRunOrFull ==
    /\ is_game_over(board) = Bit(FourInWindow(board) \/ TopRowFull(board))
    /\ call.made =>
           /\ is_game_over(call.before)
                  = Bit(FourInWindow(call.before) \/ TopRowFull(call.before))
           /\ (call.depth > 0 /\ is_game_over(call.before) = 1) =>
                  call.log = << >> /\ board = call.before

\* minimax called, with depth left, on the full board without a run, and
\* on a board with a run and open columns.
C32_Witness ==
    /\ call.made
    /\ call.depth > 0
    /\ call.log = << >>
    /\ \/ TopRowFull(call.before) /\ ~FourInWindow(call.before)
       \/ ~TopRowFull(call.before) /\ FourInWindow(call.before)
    /\ is_game_over(call.before) = 1

----------------------------------------------------------------------------
(* find_winning_move *)

\* find_winning_move(p) on b: the sentinel exactly when no drop of p wins,
\* otherwise the landing cell of the lowest winning column; every piece it
\* tries is p's, on the lowest empty cell of a column of b, and b is left
\* as it was.
FindsLowestWin(b, p) ==
    \A f \in {find_winning_move(Mem(b), p)} :
        /\ f.ret = GameMove(-1, -1) <=> WinningDrops(b, p) = {}
        /\ WinningDrops(b, p) # {} =>
               f.ret = GameMove(LowestEmpty(b, SetMin(WinningDrops(b, p))),
                                SetMin(WinningDrops(b, p)))
        /\ \A i \in 1 .. Len(f.m.log) :
               /\ IsLowestEmpty(b, f.m.log[i].row, f.m.log[i].col)
               /\ f.m.log[i].val \in {p, cell_empty}
        /\ f.m.b = b

\* C33: find_winning_move(player) returns {-1,-1} if and only if no
\* column's lowest empty cell completes a 4-in-a-row for player, otherwise
\* the winning cell of the lowest-index such column, and it tries only the
\* lowest empty cell of each column.
C33_FindWinningMove ==
    AiToMove =>
        FindsLowestWin(board, cell_player2) /\ FindsLowestWin(board, cell_player1)

\* The computer is to move again, on a board on which one player has no
\* winning drop and the other has one, not in the lowest open column.
C33_Witness ==
    /\ AiToMove
    /\ sim.called
    /\ \E p \in {cell_player1, cell_player2} :
          /\ WinningDrops(board, p) # {}
          /\ SetMin(WinningDrops(board, p)) > SetMin(OpenCols(board))
          /\ WinningDrops(board, Opponent(p)) = {}
          /\ find_winning_move(Mem(board), Opponent(p)).ret = GameMove(-1, -1)

----------------------------------------------------------------------------
(* The top row as the test of fullness *)

\* On b the top row tells what is full: it has no empty cell exactly when
\* no cell of the board is empty, a column has an empty cell exactly when
\* its top cell is empty, and get_valid_moves lists exactly those columns
\* in ascending order.
TopRowExact(b) ==
    /\ TopRowFull(b) <=> PieceCount(b) = BOARD_FULL
    /\ \A c \in ColIdx : b[0][c] = cell_empty <=> LowestEmpty(b, c) # -1
    /\ \A v \in {get_valid_moves(b)} :
          /\ {v[i] : i \in 1 .. Len(v)} = {c \in ColIdx : \E r \in RowIdx : b[r][c] = cell_empty}
          /\ \A i \in 1 .. (Len(v) - 1) : v[i] < v[i + 1]
    /\ is_game_over(b) = 0 => PieceCount(b) < BOARD_FULL

\* The writes log[lo] .. log[hi] replayed on b, one half after the other:
\* the board they leave, and whether TopRowExact held after each of them.
RECURSIVE TopRowExactAlong(_, _, _, _)
TopRowExactAlong(b, log, lo, hi) ==
    IF lo > hi THEN [b |-> b, ok |-> TRUE]
    ELSE IF lo = hi
         THEN Only({[b |-> b2, ok |-> TopRowExact(b2)] : b2 \in {Write(b, log[lo])}})
         ELSE Only({Only({[b |-> second.b, ok |-> first.ok /\ second.ok] :
                              second \in {TopRowExactAlong(first.b, log,
                                                           ((lo + hi) \div 2) + 1, hi)}}) :
                        first \in {TopRowExactAlong(b, log, lo, (lo + hi) \div 2)}})

\* C34: on every board of a session and of an AI simulation, no cell of row
\* 0 is empty exactly when all 42 cells are occupied, and a column can take
\* a piece exactly when its top cell is empty.
C34_TopRowIsFullness ==
    /\ TopRowExact(board)
    /\ sim.called => TopRowExactAlong(sim.before, sim.log, 1, Len(sim.log)).ok

\* The board has been filled by the computer's piece, after a search that
\* simulated pieces next to full columns.
C34_Witness ==
    /\ TopRowFull(board)
    /\ PieceCount(board) = BOARD_FULL
    /\ sim.called
    /\ count_moves = PieceCount(sim.before) + 1
    /\ Placed(sim.log) > 2
    /\ \E c \in ColIdx : sim.before[0][c] # cell_empty

----------------------------------------------------------------------------
(* The move count *)

\* C35: at the top of every iteration of a session loop count_moves is the
\* number of non-empty cells and is at most 42; the draw test
\* "count_moves == BOARD_FULL" holds exactly when the board has no empty
\* cell; and no move is asked of a human or of a computer player on a board
\* without an empty cell.
C35_CountIsPieces ==
    /\ pc = "top" =>
           /\ count_moves = PieceCount(board)
           /\ count_moves <= BOARD_FULL
           /\ count_moves = BOARD_FULL <=> CellsOf(board, cell_empty) = {}
    /\ pc \in {"input", "easy"} => CellsOf(board, cell_empty) # {}
    /\ sim.called => CellsOf(sim.before, cell_empty) # {}

\* The top of the loop of a Player-vs-Player game with all 42 cells taken:
\* the draw test is about to hold.
C35_Witness ==
    /\ pc = "top"
    /\ mode = "pvp"
    /\ count_moves = BOARD_FULL
    /\ CellsOf(board, cell_empty) = {}

----------------------------------------------------------------------------
(* The end of a session *)

\* The modes whose loops ask input_player_move and ai_medium_move for
\* their moves.
LiveModes == {"pvp", "medium"}

NextLive ==
    \/ \E md \in LiveModes : StartGame(md)
    \/ DrawCheck
    \/ HumanTurn
    \/ \E col \in ColIdx : InputFull(col)
    \/ \E col \in ColIdx : InputMove(col)
    \/ \E d \in MediumDraws : MediumTurn(d)
    \/ Proceed

\* The Medium loop is at its call of ai_medium_move.
MediumAsked ==
    pc = "top" /\ count_moves # BOARD_FULL /\ mode = "medium" /\ turn # 0

\* The Player-vs-Player and Medium sessions in which every requested move
\* is supplied: the loop runs on, the human at some point names a column
\* that is not full, and no call of ai_medium_move lasts for ever.  A step
\* of MediumTurn is possible exactly in the states of MediumAsked and
\* leaves them, so the last conjunct is WF_vars(\E d : MediumTurn(d)).
SpecLive ==
    /\ Init
    /\ [][NextLive]_vars
    /\ WF_vars(DrawCheck)
    /\ WF_vars(HumanTurn)
    /\ WF_vars(\E col \in ColIdx : InputMove(col))
    /\ []<>~MediumAsked

\* C36: every session in which each requested move is supplied reaches the
\* announcement of a win or of a draw, with at most 42 pieces placed.
C36_SessionEnds ==
    (pc \in {"top", "input"})
        ~> (pc = "over" /\ reported # "none" /\ count_moves <= BOARD_FULL)

\* A Medium game that ended in a draw.
C36_Witness ==
    pc = "over" /\ mode = "medium" /\ reported = "draw" /\ count_moves = BOARD_FULL

----------------------------------------------------------------------------
(* The cost of the search *)

\* The writes log[lo] .. log[hi]: net is the number of pieces they place
\* minus the number they remove, peak the largest such number after any of
\* them (0 at least).
RECURSIVE Outstanding(_, _, _)
Outstanding(log, lo, hi) ==
    IF lo > hi THEN [net |-> 0, peak |-> 0]
    ELSE IF lo = hi
         THEN IF log[lo].val # cell_empty
              THEN [net |-> 1, peak |-> 1]
              ELSE [net |-> -1, peak |-> 0]
         ELSE Only({[net |-> first.net + second.net,
                     peak |-> IF first.peak > first.net + second.peak
                              THEN first.peak ELSE first.net + second.peak] :
                        first \in {Outstanding(log, lo, (lo + hi) \div 2)},
                        second \in {Outstanding(log, ((lo + hi) \div 2) + 1, hi)}})

\* The largest number of simulated pieces on the board at one time.
Peak(log) == Outstanding(log, 1, Len(log)).peak

\* The largest number of pieces minimax(depth, INT_MIN, INT_MAX, 0, .)
\* has on board b at one time, for depth 0, 1 and 2, when every call
\* passes on depth - 1: none at depth 0 or on a finished board, else one,
\* and two at depth 2 when some drop of Player1 leaves the game unfinished.
PeakAtDepth(b, depth) ==
    IF depth = 0 \/ is_game_over(b) # 0 THEN 0
    ELSE IF depth = 1 THEN 1
    ELSE IF \E c \in OpenCols(b) : is_game_over(Drop(b, c, cell_player1)) = 0 THEN 2
    ELSE 1

----------------------------------------------------------------------------
(* The reads of the win detection *)

\* The cells check_winner's three functions read for the last move mv of
\* player p on board b.
ReadsOfCheck(b, mv, p) ==
    ReadsVertical(b, mv, p) \cup ReadsHorizontal(b, mv, p) \cup ReadsDiagonal(b, mv, p)

\* The eight directions of the loops.
Directions == {<<dr, dc>> : dr \in {-1, 0, 1}, dc \in {-1, 0, 1}} \ {<<0, 0>>}

\* C38: for every last move inside the board, of either player,
\* check_vertical, check_horizontal and check_diagonal read only cells
\* board[r][c] with 0 <= r <= 5 and 0 <= c <= 6; each loop counts the cells
\* it read that hold the player.
C38_ReadsInsideBoard ==
    \A r \in RowIdx, c \in ColIdx, p \in {cell_player1, cell_player2} :
        /\ \A rc \in ReadsOfCheck(board, GameMove(r, c), p) : InBoard(rc[1], rc[2])
        /\ <<r, c>> = <<move.row, move.column>> =>
               \A d \in Directions :
                   CountDir(board, r, c, d[1], d[2], p)
                       = Cardinality({rc \in ReadsDir(board, r, c, d[1], d[2], p) :
                                          board[rc[1]][rc[2]] = p})

\* check_winner has found a run that ends with the last move in the top
\* right corner, and its loops stopped at both edges without a read.
C38_Witness ==
    /\ pc = "checked"
    /\ winner = 1
    /\ move = GameMove(0, COLS - 1)
    /\ ReadsOfCheck(board, move, player) # {}
    /\ ReadsDir(board, move.row, move.column, -1, 0, player) = {}
    /\ ReadsDir(board, move.row, move.column, 0, 1, player) = {}

----------------------------------------------------------------------------
(* The Hard computer player as a function of the board *)

====
